---- MODULE Spec2Model ----
(***************************************************************************)
(* Model of the Battleships WebSocket server (src/server.js, class         *)
(* BattleshipsServer).  One action per socket event: a decoded message is  *)
(* dispatched by handleClientMessage to exactly one handler, which runs to *)
(* completion; a 'close' event runs handleDisconnection.                   *)
(*                                                                         *)
(* Player records are heap objects shared by the players map, the wait     *)
(* queue and the games: they are kept in the sequence playerData and       *)
(* referred to by their position, which also stands for the uuid in        *)
(* player.id.  Game ids are the values of a counter for the same reason.   *)
(* JavaScript's null is NULL; game.players is indexed 0 and 1 as in the    *)
(* source.                                                                 *)
(*                                                                         *)
(* A handler is an operator from the server's state, the socket and the    *)
(* message to the state it leaves and the frames it passed to ws.send, in  *)
(* order: [state |-> ..., sent |-> ...].  What a handler sends is thus a   *)
(* function of the state it runs in, and a statement about a handler is a  *)
(* statement about its result in every reachable state.                    *)
(***************************************************************************)
EXTENDS Integers, Sequences, FiniteSets, TLC

\* ---------------------------------------------------------------- bounds
\* Spec: the number of client connections and of join_game messages handled
\* (Player records created) in one run.
NConn == 2
MaxPlayers == 3
\* SpecLobby: the same two bounds for the runs of joins and disconnections.
LobbyConn == 4
LobbyPlayers == 4
\* SpecPlacement: the number of changes made to a fleet before it is submitted.
MaxEdits == 2
\* SpecClients: the number of clicks on the target boards of the two pages.
MaxClicks == 2
\* SpecClients: the number of connections the two pages make.
MaxSockets == 3
\* SpecClients, SpecSetup: the number of connections that go down by
\* themselves.
MaxCloses == 1

NULL == 0
Coords == {<<0, 0>>, <<9, 9>>}

\* the name the user on a connection joins under
playerNameOf(ws) == <<"player", ws>>

\* a field JSON.parse decoded to {"toString": null}: an object with no string
\* form
noToString == <<"object", "toString", "null">>

\* `${v}` in a template literal yields a string; for an object whose toString
\* is not callable and whose valueOf returns the object it throws a TypeError
printable(v) == v # noToString

\* --------------------------------------------------------------- fleets
carrierH == [type |-> "carrier", positions |-> <<<<0,0>>, <<0,1>>, <<0,2>>, <<0,3>>, <<0,4>>>>]
battleshipH == [type |-> "battleship", positions |-> <<<<1,0>>, <<1,1>>, <<1,2>>, <<1,3>>>>]
cruiserH == [type |-> "cruiser", positions |-> <<<<2,0>>, <<2,1>>, <<2,2>>>>]
submarineH == [type |-> "submarine", positions |-> <<<<3,0>>, <<3,1>>, <<3,2>>>>]
\* the destroyer standing upright
destroyerV == [type |-> "destroyer", positions |-> <<<<8,9>>, <<9,9>>>>]

FleetA == <<carrierH, battleshipH, cruiserH, submarineH, destroyerV>>
\* the same ships, the cruiser and the destroyer with their cells listed in
\* another order
FleetMixed ==
    <<carrierH, battleshipH,
      [type |-> "cruiser", positions |-> <<<<2,1>>, <<2,2>>, <<2,0>>>>],
      submarineH,
      [type |-> "destroyer", positions |-> <<<<9,9>>, <<8,9>>>>]>>
\* the cruiser bent around a corner
FleetBent ==
    <<carrierH, battleshipH,
      [type |-> "cruiser", positions |-> <<<<2,0>>, <<2,1>>, <<3,1>>>>],
      submarineH, destroyerV>>
\* a fleet laid out on every other row, all ships lying flat
FleetSpread ==
    <<[type |-> "carrier", positions |-> <<<<0,0>>, <<0,1>>, <<0,2>>, <<0,3>>, <<0,4>>>>],
      [type |-> "battleship", positions |-> <<<<2,0>>, <<2,1>>, <<2,2>>, <<2,3>>>>],
      [type |-> "cruiser", positions |-> <<<<4,0>>, <<4,1>>, <<4,2>>>>],
      [type |-> "submarine", positions |-> <<<<6,0>>, <<6,1>>, <<6,2>>>>],
      [type |-> "destroyer", positions |-> <<<<8,0>>, <<8,1>>>>]>>
\* the fleets a setup_complete carries
Fleets == {FleetA, FleetMixed, <<carrierH, battleshipH, cruiserH, submarineH>>, FleetBent}
NoShips == <<>>

VARIABLES
    readyState,      \* ws.readyState of every connection
    players,         \* this.players: ws -> id of its Player record (NULL: no entry)
    playerData,      \* the Player records created so far, by id
    waitingPlayers,  \* this.waitingPlayers: queue of Player ids
    activeGames,     \* this.activeGames: game id -> game
    gamesCreated,    \* number of game ids drawn so far
    lastShooter,     \* per game: index of the member whose fire was relayed last, and
                     \* whether that fire still awaits its fire_result
    gameEnds,        \* per game ever created: how many game_end frames were sent to
                     \* the member at index 0 and at index 1
    submitted,       \* SpecPlacement, SpecSetup: the fleet handed to
                     \* validateShipPlacement last
    verdict,         \* SpecPlacement, SpecSetup: what validateShipPlacement
                     \* returned for it
    edits,           \* SpecPlacement: the number of changes made to the fleet
    agent,           \* SpecClients: the BattleshipsAgent of every page, with the
                     \* sockets the page has made and their readyState
    toServer,        \* SpecClients, SpecSetup: per connection, the messages the page has
                     \* sent and the server has not yet received, oldest first
    toClient,        \* SpecClients, SpecSetup: per connection, the frames the server has
                     \* sent and the page has not yet received, oldest first
    tally,           \* SpecClients: how many fires the server has relayed, how
                     \* many fire_results it has relayed, per page how many
                     \* turn_change and game_end frames it received and how
                     \* many turn_change frames were sent to it
    setup            \* SpecSetup: a client's setup screen: status, the screen
                     \* shown, placedShips, the cells of ownBoard with hasShip,
                     \* the dock items with the class 'placed',
                     \* currentDraggedShip, shipOrientation, how often
                     \* initializeShipDock has added its listeners, the
                     \* readyState of this.websocket as the page sees it, and
                     \* the state of the socket of an earlier press of Join

vars == <<readyState, players, playerData, waitingPlayers, activeGames, gamesCreated,
          lastShooter, gameEnds, submitted, verdict, edits, agent, toServer, toClient,
          tally, setup>>

\* the server's state as one value, for the handlers
server ==
    [readyState |-> readyState,
     players |-> players,
     playerData |-> playerData,
     waitingPlayers |-> waitingPlayers,
     activeGames |-> activeGames,
     gamesCreated |-> gamesCreated,
     lastShooter |-> lastShooter,
     gameEnds |-> gameEnds]

\* ------------------------------------------------------ placement validator
expectedShips ==
    [carrier |-> [length |-> 5, count |-> 1],
     battleship |-> [length |-> 4, count |-> 1],
     cruiser |-> [length |-> 3, count |-> 1],
     submarine |-> [length |-> 3, count |-> 1],
     destroyer |-> [length |-> 2, count |-> 1]]

\* expectedShips is an object literal, so a lookup by ship.type also finds what
\* it inherits from Object.prototype: functions, whose length is the number
\* of their parameters
objectPrototype ==
    ("constructor" :> 1 @@ "hasOwnProperty" :> 1 @@ "isPrototypeOf" :> 1
     @@ "propertyIsEnumerable" :> 1 @@ "__lookupGetter__" :> 1
     @@ "__lookupSetter__" :> 1 @@ "__defineGetter__" :> 2
     @@ "__defineSetter__" :> 2 @@ "toString" :> 0 @@ "toLocaleString" :> 0
     @@ "valueOf" :> 0)

BoardSize == 10

\* the comparator of positions.sort: a[0] - b[0] || a[1] - b[1]
comparePositions(a, b) == IF a[1] - b[1] # 0 THEN a[1] - b[1] ELSE a[2] - b[2]

RECURSIVE insertSorted(_, _)
insertSorted(sorted, p) ==
    IF sorted = <<>> THEN <<p>>
    ELSE IF comparePositions(p, Head(sorted)) < 0 THEN <<p>> \o sorted
    ELSE <<Head(sorted)>> \o insertSorted(Tail(sorted), p)

\* positions.sort(...): a stable ascending sort
RECURSIVE sortPositions(_)
sortPositions(positions) ==
    IF positions = <<>> THEN <<>>
    ELSE insertSorted(sortPositions(SubSeq(positions, 1, Len(positions) - 1)),
                      positions[Len(positions)])

\* only ships lying in one row pass
validateShipContinuityRowsOnly(positions) ==
    IF Len(positions) <= 1 THEN TRUE
    ELSE LET s == sortPositions(positions) IN
         /\ \A i \in 1..Len(s) : s[i][1] = s[1][1]
         /\ \A i \in 2..Len(s) : s[i][2] - s[i-1][2] = 1

validateShipContinuity(positions) ==
    IF Len(positions) <= 1 THEN TRUE
    ELSE LET s == sortPositions(positions)
             isHorizontal == \A i \in 1..Len(s) : s[i][1] = s[1][1]
             isVertical == \A i \in 1..Len(s) : s[i][2] = s[1][2]
         IN  IF ~isHorizontal /\ ~isVertical THEN FALSE
             ELSE \A i \in 2..Len(s) :
                     IF isHorizontal THEN s[i][2] - s[i-1][2] = 1
                     ELSE s[i][1] - s[i-1][1] = 1

\* the inner loop over ship.positions: the cells seen so far, or "reject"
RECURSIVE scanPositions(_, _, _)
scanPositions(positions, i, occupiedCells) ==
    IF i > Len(positions) THEN [ok |-> TRUE, occupiedCells |-> occupiedCells]
    ELSE LET position == positions[i] IN
         IF position \in occupiedCells THEN [ok |-> FALSE, occupiedCells |-> occupiedCells]
         ELSE IF position[1] < 0 \/ position[1] >= BoardSize
                 \/ position[2] < 0 \/ position[2] >= BoardSize
              THEN [ok |-> FALSE, occupiedCells |-> occupiedCells]
              ELSE scanPositions(positions, i + 1, occupiedCells \cup {position})

\* the loop over ships: TRUE with the counts, or FALSE at the first return false
RECURSIVE scanShips(_, _, _, _)
scanShips(ships, i, shipCounts, occupiedCells) ==
    IF i > Len(ships) THEN [ok |-> TRUE, shipCounts |-> shipCounts]
    ELSE LET ship == ships[i]
             \* (shipCounts[type] || 0) + 1; for a type shipCounts inherits
             \* from Object.prototype the sum is a string, the function's
             \* text followed by a 1 for every such ship
             counts == IF ship.type \in DOMAIN shipCounts
                       THEN [shipCounts EXCEPT ![ship.type] =
                                IF ship.type \in DOMAIN objectPrototype
                                THEN Append(@, 1) ELSE @ + 1]
                       ELSE shipCounts @@ (ship.type :>
                                IF ship.type \in DOMAIN objectPrototype
                                THEN <<"function", 1>> ELSE 1)
             \* expectedShips[ship.type]?.length, 0 standing for undefined
             expectedLength ==
                 IF ship.type \in DOMAIN expectedShips
                 THEN expectedShips[ship.type].length
                 ELSE IF ship.type \in DOMAIN objectPrototype
                 THEN objectPrototype[ship.type]
                 ELSE 0
         IN  IF expectedLength = 0 \/ Len(ship.positions) # expectedLength
             THEN [ok |-> FALSE, shipCounts |-> counts]
             ELSE LET scan == scanPositions(ship.positions, 1, occupiedCells) IN
                  IF ~scan.ok THEN [ok |-> FALSE, shipCounts |-> counts]
                  ELSE IF ~validateShipContinuity(ship.positions)
                       THEN [ok |-> FALSE, shipCounts |-> counts]
                       ELSE scanShips(ships, i + 1, counts, scan.occupiedCells)

\* every fleet passes
validateShipPlacementAny(ships) == TRUE

validateShipPlacement(ships) ==
    LET scan == scanShips(ships, 1, <<>>, {}) IN
    IF ~scan.ok THEN FALSE
    ELSE \A type \in DOMAIN expectedShips :
            /\ type \in DOMAIN scan.shipCounts
            /\ scan.shipCounts[type] = expectedShips[type].count

\* ------------------------------------------------------------- sending
\* what a handler leaves: the state and the frames sent
Result(S, out) == [state |-> S, sent |-> out]

\* sendMessage: ws.send only when that socket is OPEN; out is what the
\* handler has sent so far
sendMessage(S, out, ws, type, data) ==
    IF S.readyState[ws] = "OPEN"
    THEN Append(out, [to |-> ws, type |-> type, data |-> data])
    ELSE out

\* no error frame is sent
sendErrorNone(S, out, ws, message) == out

sendError(S, out, ws, message) ==
    sendMessage(S, out, ws, "error", [message |-> message])

\* a handler that returns after sendError, having changed nothing
reject(S, ws, message) == Result(S, sendError(S, <<>>, ws, message))

\* a statement of a handler throws: the rest of the handler is skipped and the
\* catch of the message listener of ws sends its error, after what the handler
\* has changed and sent up to there
caught(S, out, ws) == Result(S, sendError(S, out, ws, "Invalid message format"))

\* game.players.findIndex(p => p.id === player.id)
findIndex(game, player) ==
    IF game.players[0] = player THEN 0
    ELSE IF game.players[1] = player THEN 1
    ELSE -1

\* game.players.find(p => p.id !== player.id); NULL for undefined
findOther(game, player) ==
    IF game.players[0] # player THEN game.players[0]
    ELSE IF game.players[1] # player THEN game.players[1]
    ELSE NULL

\* isYourTurn: index === game.currentTurn
isYourTurn(index, game) == index = game.currentTurn

\* game.players.forEach: one turn_change to each member, in index order
announceTurn(S, out, game) ==
    LET first == sendMessage(S, out, S.playerData[game.players[0]].ws, "turn_change",
                             [isYourTurn |-> isYourTurn(0, game)])
    IN  sendMessage(S, first, S.playerData[game.players[1]].ws, "turn_change",
                    [isYourTurn |-> isYourTurn(1, game)])

\* the game_end passed to sendMessage for member index of gameId is counted
\* when it reaches ws.send
noteGameEnd(S, gameId, index) ==
    IF S.readyState[S.playerData[S.activeGames[gameId].players[index]].ws] = "OPEN"
    THEN [S EXCEPT !.gameEnds[gameId][index] = @ + 1]
    ELSE S

\* the session left in the map
deleteGameKept(S, gameId) == S

\* this.activeGames.delete(gameId)
deleteGame(S, gameId) ==
    [S EXCEPT !.activeGames = [g \in DOMAIN @ \ {gameId} |-> @[g]],
              !.lastShooter = [g \in DOMAIN @ \ {gameId} |-> @[g]]]

\* ---------------------------------------------------------- matchmaking
\* the pair stored the other way round
gamePlayersSwapped(player1, player2) == (0 :> player2 @@ 1 :> player1)

\* players: [player1, player2]
gamePlayers(player1, player2) == (0 :> player1 @@ 1 :> player2)

\* both members told they move first
turnOrderOfBothFirst(index) == "first"

\* turnOrder: 'first' in the frame to player1, 'second' in the one to player2
turnOrderOf(index) == IF index = 0 THEN "first" ELSE "second"

\* the first id drawn again
newGameIdReused(S) == 1

\* uuidv4(): an id no session had before
newGameId(S) == S.gamesCreated + 1

createGame(S, player1, player2) ==
    LET gameId == newGameId(S)
        game == [id |-> gameId,
                 players |-> gamePlayers(player1, player2),
                 currentTurn |-> 0,
                 status |-> "setup",
                 winner |-> NULL]
        S1 == [S EXCEPT !.playerData[player1].gameId = gameId,
                        !.playerData[player2].gameId = gameId,
                        !.activeGames = @ @@ (gameId :> game),
                        !.gamesCreated = @ + 1,
                        !.lastShooter = @ @@ (gameId :> [index |-> -1, pending |-> FALSE]),
                        !.gameEnds = @ @@ (gameId :> (0 :> 0 @@ 1 :> 0))]
        toFirst == sendMessage(S1, <<>>, S1.playerData[player1].ws, "game_start",
                       [gameId |-> gameId,
                        opponentName |-> S1.playerData[player2].name,
                        turnOrder |-> turnOrderOf(0)])
        toBoth == sendMessage(S1, toFirst, S1.playerData[player2].ws, "game_start",
                       [gameId |-> gameId,
                        opponentName |-> S1.playerData[player1].name,
                        turnOrder |-> turnOrderOf(1)])
    IN  \* console.log(`Game created: ${player1.name} vs ${player2.name}`);
        \* player1 is the Player of the socket whose join_game is handled
        IF printable(S1.playerData[player1].name) /\ printable(S1.playerData[player2].name)
        THEN Result(S1, toBoth)
        ELSE caught(S1, toBoth, S1.playerData[player1].ws)

\* a waiter is taken only when a second one is queued behind it
hasWaitingPlayerOffByOne(queue) == Len(queue) > 1

\* this.waitingPlayers.length > 0
hasWaitingPlayer(queue) == Len(queue) > 0

\* the waiter left at the head of the queue
shiftQueueKept(queue) == queue

\* what this.waitingPlayers.shift() leaves in the queue
shiftQueue(queue) == Tail(queue)

handleJoinGame(S, ws, message) ==
    LET playerId == Len(S.playerData) + 1
        newPlayer == [id |-> playerId,
                      name |-> message.playerName,
                      ws |-> ws,
                      gameId |-> NULL,
                      ships |-> NoShips,
                      setupComplete |-> FALSE]
        S1 == [S EXCEPT !.playerData = Append(@, newPlayer),
                        !.players[ws] = playerId]
    IN  IF hasWaitingPlayer(S1.waitingPlayers)
        THEN createGame([S1 EXCEPT !.waitingPlayers = shiftQueue(@)],
                        playerId, Head(S1.waitingPlayers))
        ELSE LET S2 == [S1 EXCEPT !.waitingPlayers = Append(@, playerId)] IN
             \* console.log(`Player ${message.playerName} waiting for opponent`)
             IF printable(message.playerName)
             THEN Result(S2, <<>>)
             ELSE caught(S2, <<>>, ws)

\* ---------------------------------------------------------------- setup
\* some instead of every
allReadySome(S, game) == \E i \in {0, 1} : S.playerData[game.players[i]].setupComplete

\* game.players.every(p => p.setupComplete)
allReady(S, game) == \A i \in {0, 1} : S.playerData[game.players[i]].setupComplete

handleSetupComplete(S, ws, message) ==
    LET player == S.players[ws] IN
    IF player = NULL \/ S.playerData[player].gameId = NULL
    THEN reject(S, ws, "Player not in a game")
    ELSE LET gameId == S.playerData[player].gameId IN
    IF gameId \notin DOMAIN S.activeGames
    THEN reject(S, ws, "Game not found")
    ELSE IF "ships" \notin DOMAIN message
    THEN caught(S, <<>>, ws)   \* for (const ship of undefined) throws
    ELSE IF ~validateShipPlacement(message.ships)
    THEN reject(S, ws, "Invalid ship placement")
    ELSE LET \* message.ships as it is stored: validateShipContinuity has sorted
             \* every ship's positions in place
             ships == [i \in 1..Len(message.ships) |->
                          [type |-> message.ships[i].type,
                           positions |-> sortPositions(message.ships[i].positions)]]
             S1 == [S EXCEPT !.playerData[player].ships = ships,
                             !.playerData[player].setupComplete = TRUE]
             game == S1.activeGames[gameId]
         IN  IF allReady(S1, game)
             THEN LET S2 == [S1 EXCEPT !.activeGames[gameId].status = "in_progress"]
                  IN  Result(S2, announceTurn(S2, <<>>, S2.activeGames[gameId]))
             ELSE Result(S1, <<>>)

\* ----------------------------------------------------------------- shots
\* the member itself taken for its opponent
opponentOfSelf(game, playerIndex) == game.players[playerIndex]

\* game.players[1 - playerIndex]
opponentOf(game, playerIndex) == game.players[1 - playerIndex]

\* the comparison inverted
notYourTurnInverted(playerIndex, game) == playerIndex = game.currentTurn

\* playerIndex !== game.currentTurn
notYourTurn(playerIndex, game) == playerIndex # game.currentTurn

\* only a missing session counts
notInProgressMissingOnly(S, gameId) == gameId \notin DOMAIN S.activeGames

\* !game || game.status !== 'in_progress'
notInProgress(S, gameId) ==
    gameId \notin DOMAIN S.activeGames \/ S.activeGames[gameId].status # "in_progress"

handleFire(S, ws, message) ==
    LET player == S.players[ws] IN
    IF player = NULL \/ S.playerData[player].gameId = NULL
    THEN reject(S, ws, "Player not in a game")
    ELSE LET gameId == S.playerData[player].gameId IN
    IF notInProgress(S, gameId)
    THEN reject(S, ws, "Game not in progress")
    ELSE LET game == S.activeGames[gameId]
             playerIndex == findIndex(game, player)
         IN
    IF notYourTurn(playerIndex, game)
    THEN reject(S, ws, "Not your turn")
    ELSE LET opponent == opponentOf(game, playerIndex)
             S1 == [S EXCEPT !.lastShooter[gameId] =
                                [index |-> playerIndex, pending |-> TRUE]]
             relayed == sendMessage(S, <<>>, S.playerData[opponent].ws, "opponent_fire",
                                    [coordinates |-> message.coordinates])
         IN  \* console.log(`${player.name} fired at ${message.coordinates}`)
             IF printable(S.playerData[player].name) /\ printable(message.coordinates)
             THEN Result(S1, relayed)
             ELSE caught(S1, relayed, ws)

\* the stub of the win check: whatever the fleet, the answer is false
checkAllShipsSunk(ships, defenderWs) == FALSE

\* the turn left where it is
switchTurnStuck(currentTurn) == currentTurn

\* 1 - game.currentTurn
switchTurn(currentTurn) == 1 - currentTurn

\* out is what handleFireResult has sent before it calls endGame
endGame(S, out, game, winnerId) ==
    LET winner == IF game.players[0] = winnerId THEN game.players[0] ELSE game.players[1]
        loser == findOther(game, winnerId)
        toWinner == sendMessage(S, out, S.playerData[winner].ws, "game_end",
                                [winner |-> S.playerData[winner].name])
        toBoth == sendMessage(S, toWinner, S.playerData[loser].ws, "game_end",
                              [winner |-> S.playerData[winner].name])
        S1 == [noteGameEnd(noteGameEnd(S, game.id, 0), game.id, 1)
                  EXCEPT !.activeGames[game.id].status = "finished",
                         !.activeGames[game.id].winner = winnerId]
    IN  \* console.log(`Game ${game.id} ended. Winner: ${winner.name}`), before
        \* the session is deleted; the loser's socket sent the fire_result
        IF printable(S.playerData[winner].name)
        THEN Result(deleteGame(S1, game.id), toBoth)
        ELSE caught(S1, toBoth, S.playerData[loser].ws)

handleFireResult(S, ws, message) ==
    LET player == S.players[ws] IN
    IF player = NULL \/ S.playerData[player].gameId = NULL
    THEN reject(S, ws, "Player not in a game")
    ELSE LET gameId == S.playerData[player].gameId IN
    IF gameId \notin DOMAIN S.activeGames
    THEN reject(S, ws, "Game not found")
    ELSE LET game == S.activeGames[gameId]
             playerIndex == findIndex(game, player)
             opponent == opponentOf(game, playerIndex)
             shotResult == sendMessage(S, <<>>, S.playerData[opponent].ws, "shot_result",
                               [coordinates |-> message.coordinates,
                                result |-> message.result,
                                shipSunk |-> message.shipSunk])
         IN  IF message.result = "hit" /\ checkAllShipsSunk(S.playerData[player].ships, ws)
             THEN endGame(S, shotResult, game, opponent)
             ELSE LET S1 == [S EXCEPT !.activeGames[gameId].currentTurn = switchTurn(@),
                                      !.lastShooter[gameId].pending = FALSE]
                  IN  Result(S1, announceTurn(S1, shotResult, S1.activeGames[gameId]))

\* ---------------------------------------------------------- disconnection
\* the player who left named as winner
forfeitWinnerLeaver(S, player, opponent) == S.playerData[player].name

\* winner: opponent.name
forfeitWinner(S, player, opponent) == S.playerData[opponent].name

\* the queue left as it is
removeFromQueueNone(queue, player) == queue

\* findIndex(p => p.id === player.id) and splice(waitingIndex, 1); a Player is
\* queued at most once
removeFromQueue(queue, player) == SelectSeq(queue, LAMBDA p : p # player)

\* an exception leaves a listener nothing catches it for: the process ends,
\* and with it every connection, without a 'close' listener run for any
exited(S) == [S EXCEPT !.readyState = [w \in DOMAIN @ |-> "CLOSED"]]

\* S is the state with the closed socket's readyState already CLOSED
handleDisconnection(S, ws) ==
    LET player == S.players[ws] IN
    IF player = NULL THEN Result(S, <<>>)
    ELSE LET S1 == [S EXCEPT !.waitingPlayers = removeFromQueue(@, player)]
             gameId == S.playerData[player].gameId
             live == gameId # NULL /\ gameId \in DOMAIN S.activeGames
             opponent == IF live THEN findOther(S.activeGames[gameId], player) ELSE NULL
             out == IF live /\ opponent # NULL
                    THEN sendMessage(S, <<>>, S.playerData[opponent].ws, "game_end",
                             [winner |-> forfeitWinner(S, player, opponent),
                              reason |-> "opponent_disconnected"])
                    ELSE <<>>
             noted == IF live /\ opponent # NULL
                      THEN noteGameEnd(S1, gameId, findIndex(S.activeGames[gameId], opponent))
                      ELSE S1
             S2 == IF live THEN deleteGame(noted, gameId) ELSE S1
             S3 == [S2 EXCEPT !.players[ws] = NULL]
         IN  \* console.log(`Player ${player.name} disconnected`), in the 'close'
             \* listener, which has no try around it
             IF printable(S.playerData[player].name)
             THEN Result(S3, out)
             ELSE Result(exited(S3), out)

\* ---------------------------------------------------------------- router
\* default: this.sendError(ws, 'Unknown message type')
handleUnknown(S, ws) == reject(S, ws, "Unknown message type")

handleClientMessage(S, ws, message) ==
    CASE message.type = "join_game" -> handleJoinGame(S, ws, message)
      [] message.type = "setup_complete" -> handleSetupComplete(S, ws, message)
      [] message.type = "fire" -> handleFire(S, ws, message)
      [] message.type = "fire_result" -> handleFireResult(S, ws, message)
      [] OTHER -> handleUnknown(S, ws)

\* ws.on('message') with data JSON.parse cannot decode: the catch branch
handleUndecodable(S, ws) == caught(S, <<>>, ws)

\* ws.on('close'): the socket is CLOSED when the listener runs
onClose(S, ws) == handleDisconnection([S EXCEPT !.readyState[ws] = "CLOSED"], ws)

\* ------------------------------------------------------------ the events
\* the handler's state becomes the server's
BecomesServer(r) ==
    /\ readyState' = r.state.readyState
    /\ players' = r.state.players
    /\ playerData' = r.state.playerData
    /\ waitingPlayers' = r.state.waitingPlayers
    /\ activeGames' = r.state.activeGames
    /\ gamesCreated' = r.state.gamesCreated
    /\ lastShooter' = r.state.lastShooter
    /\ gameEnds' = r.state.gameEnds

\* a socket event of the server alone: no validator run, no client
Becomes(r) ==
    /\ BecomesServer(r)
    /\ UNCHANGED <<submitted, verdict, edits, agent, toServer, toClient, tally, setup>>

\* ws.on('message'): an open socket delivers one decoded message
\* the 'message' listener has no test of its own: a message arrives on a
\* socket until its 'close' event, also while the socket is closing
OnMessage(ws, message) ==
    /\ readyState[ws] # "CLOSED"
    /\ Becomes(handleClientMessage(server, ws, message))

JoinMessage(ws) == [type |-> "join_game", playerName |-> playerNameOf(ws)]

SetupMessages ==
    {[type |-> "setup_complete", ships |-> ships] : ships \in Fleets}
        \cup {[type |-> "setup_complete"]}

FireMessages == {[type |-> "fire", coordinates |-> c] : c \in Coords}

\* what a client reports about a shot; lastShip says whether this hit sinks the
\* last ship the defender has afloat, which the wire message does not carry
FireResultMessages ==
    {[type |-> "fire_result", coordinates |-> <<0, 0>>, result |-> "miss",
      shipSunk |-> "null", lastShip |-> FALSE],
     [type |-> "fire_result", coordinates |-> <<9, 9>>, result |-> "hit",
      shipSunk |-> "null", lastShip |-> FALSE],
     [type |-> "fire_result", coordinates |-> <<0, 0>>, result |-> "hit",
      shipSunk |-> "destroyer", lastShip |-> FALSE],
     [type |-> "fire_result", coordinates |-> <<9, 9>>, result |-> "hit",
      shipSunk |-> "destroyer", lastShip |-> TRUE]}

UnknownMessages == {[type |-> "chat"]}

JoinGame(ws) ==
    /\ Len(playerData) < MaxPlayers
    /\ OnMessage(ws, JoinMessage(ws))

SetupComplete(ws) == \E m \in SetupMessages : OnMessage(ws, m)

Fire(ws) == \E m \in FireMessages : OnMessage(ws, m)

FireResult(ws) == \E m \in FireResultMessages : OnMessage(ws, m)

UnknownMessage(ws) == \E m \in UnknownMessages : OnMessage(ws, m)

Undecodable(ws) ==
    /\ readyState[ws] # "CLOSED"
    /\ Becomes(handleUndecodable(server, ws))

\* the transport starts closing the socket: readyState leaves OPEN before the
\* 'close' event is emitted
BeginClose(ws) ==
    /\ readyState[ws] = "OPEN"
    /\ readyState' = [readyState EXCEPT ![ws] = "CLOSING"]
    /\ UNCHANGED <<players, playerData, waitingPlayers, activeGames, gamesCreated,
                   lastShooter, gameEnds, submitted, verdict, edits,
                   agent, toServer, toClient, tally, setup>>

Close(ws) ==
    /\ readyState[ws] # "CLOSED"
    /\ Becomes(onClose(server, ws))

\* the state the constructor leaves, with n connections accepted
InitWith(n) ==
    /\ readyState = [ws \in 1..n |-> "OPEN"]
    /\ players = [ws \in 1..n |-> NULL]
    /\ playerData = <<>>
    /\ waitingPlayers = <<>>
    /\ activeGames = <<>>
    /\ gamesCreated = 0
    /\ lastShooter = <<>>
    /\ gameEnds = <<>>
    /\ submitted = NoShips
    /\ verdict = FALSE
    /\ edits = 0
    /\ agent = <<>>
    /\ toServer = <<>>
    /\ toClient = <<>>
    /\ tally = <<>>
    /\ setup = <<>>

Init == InitWith(NConn)

Next ==
    \/ \E ws \in DOMAIN readyState : JoinGame(ws)
    \/ \E ws \in DOMAIN readyState : SetupComplete(ws)
    \/ \E ws \in DOMAIN readyState : Fire(ws)
    \/ \E ws \in DOMAIN readyState : FireResult(ws)
    \/ \E ws \in DOMAIN readyState : UnknownMessage(ws)
    \/ \E ws \in DOMAIN readyState : Undecodable(ws)
    \/ \E ws \in DOMAIN readyState : BeginClose(ws)
    \/ \E ws \in DOMAIN readyState : Close(ws)

Spec == Init /\ [][Next]_vars

\* Joins and disconnections alone, on more connections.
InitLobby == InitWith(LobbyConn)

JoinLobby(ws) ==
    /\ Len(playerData) < LobbyPlayers
    /\ OnMessage(ws, JoinMessage(ws))

NextLobby ==
    \/ \E ws \in DOMAIN readyState : JoinLobby(ws)
    \/ \E ws \in DOMAIN readyState : BeginClose(ws)
    \/ \E ws \in DOMAIN readyState : Close(ws)

SpecLobby == InitLobby /\ [][NextLobby]_vars

\* Clients that send fields with no string form: a join_game under such a
\* name, a fire at such coordinates.
JoinNamed(ws) ==
    /\ Len(playerData) < MaxPlayers
    /\ \E name \in {playerNameOf(ws), noToString} :
           OnMessage(ws, [type |-> "join_game", playerName |-> name])

FireAt(ws) ==
    \E c \in Coords \cup {noToString} :
        OnMessage(ws, [type |-> "fire", coordinates |-> c])

NextPayloads ==
    \/ \E ws \in DOMAIN readyState : JoinNamed(ws)
    \/ \E ws \in DOMAIN readyState : SetupComplete(ws)
    \/ \E ws \in DOMAIN readyState : FireAt(ws)
    \/ \E ws \in DOMAIN readyState : FireResult(ws)
    \/ \E ws \in DOMAIN readyState : Close(ws)

SpecPayloads == Init /\ [][NextPayloads]_vars

\* ------------------------------------------------ the placement validator
\* The validator alone: a client starts from a fleet, changes it a few times
\* and hands every version to validateShipPlacement.
\* the displacements of a ship or of a cell
Steps == {<<0, 1>>, <<1, 0>>, <<0, -1>>, <<-1, 0>>}

replaceShip(ships, i, ship) == [ships EXCEPT ![i] = ship]

moved(ship, step) ==
    [ship EXCEPT !.positions =
        [k \in DOMAIN @ |-> <<@[k][1] + step[1], @[k][2] + step[2]>>]]

\* turned by 90 degrees about its first listed cell: rows and columns of the
\* offsets from that cell change places
rotated(ship) ==
    LET pivot == ship.positions[1] IN
    [ship EXCEPT !.positions =
        [k \in DOMAIN @ |-> <<pivot[1] + (@[k][2] - pivot[2]),
                              pivot[2] + (@[k][1] - pivot[1])>>]]

\* the same cells listed backwards
reversed(ship) ==
    [ship EXCEPT !.positions = [k \in DOMAIN @ |-> @[Len(@) + 1 - k]]]

\* the same cells, the first one listed last
cycled(ship) == [ship EXCEPT !.positions = Tail(@) \o <<Head(@)>>]

\* the client hands ships to the validator
Submit(ships) ==
    /\ edits < MaxEdits
    /\ edits' = edits + 1
    /\ submitted' = ships
    /\ verdict' = validateShipPlacement(ships)
    /\ UNCHANGED <<readyState, players, playerData, waitingPlayers, activeGames,
                   gamesCreated, lastShooter, gameEnds, agent, toServer, toClient,
                   tally, setup>>

HasCells(i) == i \in 1..Len(submitted) /\ Len(submitted[i].positions) > 0

DropShip(i) == Submit(SubSeq(submitted, 1, i - 1) \o SubSeq(submitted, i + 1, Len(submitted)))

\* a sixth ship whose type is no kind of the game: a name expectedShips
\* inherits with as many cells as that function has parameters, one with
\* another number of cells, one of length 0 and one nothing is found for
AddForeignShip ==
    \E ship \in {[type |-> "constructor", positions |-> <<<<9, 0>>>>],
                 [type |-> "__defineGetter__", positions |-> <<<<5, 0>>, <<5, 1>>>>],
                 [type |-> "hasOwnProperty", positions |-> <<<<5, 0>>, <<5, 1>>>>],
                 [type |-> "toString", positions |-> <<>>],
                 [type |-> "frigate", positions |-> <<<<9, 0>>>>]} :
        Submit(Append(submitted, ship))

\* a sixth ship: a copy of ship i one row further down
AddShip(i) == Submit(Append(submitted, moved(submitted[i], <<1, 0>>)))

\* the ship is relabelled with a kind of its own length, a kind of another
\* length, or a type the game does not have
RetypeShip(i) ==
    \E type \in {"cruiser", "destroyer", "frigate"} :
        Submit(replaceShip(submitted, i, [submitted[i] EXCEPT !.type = type]))

MoveShip(i) == \E step \in Steps : Submit(replaceShip(submitted, i, moved(submitted[i], step)))

RotateShip(i) == HasCells(i) /\ Submit(replaceShip(submitted, i, rotated(submitted[i])))

ReverseCells(i) == Submit(replaceShip(submitted, i, reversed(submitted[i])))

CycleCells(i) == HasCells(i) /\ Submit(replaceShip(submitted, i, cycled(submitted[i])))

\* the last listed cell alone displaced
NudgeCell(i) ==
    /\ HasCells(i)
    /\ \E step \in Steps :
           Submit([submitted EXCEPT ![i].positions[Len(submitted[i].positions)] =
                                       <<@[1] + step[1], @[2] + step[2]>>])

\* the last listed cell taken away
TruncateShip(i) ==
    /\ HasCells(i)
    /\ Submit([submitted EXCEPT ![i].positions = SubSeq(@, 1, Len(@) - 1)])

\* one more cell, to the right of the last listed one
ExtendShip(i) ==
    /\ HasCells(i)
    /\ Submit([submitted EXCEPT ![i].positions =
                                   Append(@, <<@[Len(@)][1], @[Len(@)][2] + 1>>)])

InitPlacement ==
    /\ readyState = <<>>
    /\ players = <<>>
    /\ playerData = <<>>
    /\ waitingPlayers = <<>>
    /\ activeGames = <<>>
    /\ gamesCreated = 0
    /\ lastShooter = <<>>
    /\ gameEnds = <<>>
    /\ submitted \in {FleetA, FleetSpread}
    /\ verdict = validateShipPlacement(submitted)
    /\ edits = 0
    /\ agent = <<>>
    /\ toServer = <<>>
    /\ toClient = <<>>
    /\ tally = <<>>
    /\ setup = <<>>

NextPlacement ==
    \/ \E i \in 1..Len(submitted) : DropShip(i)
    \/ \E i \in 1..Len(submitted) : AddShip(i)
    \/ AddForeignShip
    \/ \E i \in 1..Len(submitted) : RetypeShip(i)
    \/ \E i \in 1..Len(submitted) : MoveShip(i)
    \/ \E i \in 1..Len(submitted) : RotateShip(i)
    \/ \E i \in 1..Len(submitted) : ReverseCells(i)
    \/ \E i \in 1..Len(submitted) : CycleCells(i)
    \/ \E i \in 1..Len(submitted) : NudgeCell(i)
    \/ \E i \in 1..Len(submitted) : TruncateShip(i)
    \/ \E i \in 1..Len(submitted) : ExtendShip(i)

SpecPlacement == InitPlacement /\ [][NextPlacement]_vars

\* ================================================= clients and the network
\* Two pages, each with one BattleshipsAgent (battleships-agent.js), play over
\* the server. Every connectToServer makes a new connection; a connection
\* carries its messages in order in both directions, a message sent is
\* received later, and the directions and the connections advance
\* independently of each other. The server has accepted a connection before
\* the page gets its 'open' event, so readyState, the server's side of the
\* connection, is OPEN from the moment the connection is made; the page's side
\* is agent[c].sockets.
Clients == {1, 2}

\* the empty string
NoName == <<>>

\* the ships a client has placed on its setup board
placedShips(c) == FleetA

\* the state the constructor leaves: no socket, the connection screen shown
newAgent ==
    [status |-> "disconnected", screen |-> "connection-screen",
     playerName |-> NoName, opponentName |-> NoName, isMyTurn |-> FALSE,
     gameId |-> NULL, websocket |-> NULL, sockets |-> <<>>,
     ownHits |-> {}, opponentHits |-> {}, listeners |-> 0, clicks |-> 0]

\* the page that made connection ws
Owner(ws) == CHOOSE c \in Clients : ws \in DOMAIN agent[c].sockets

AgentResult(a, out) == [agent |-> a, send |-> out]

\* BattleshipsAgent.sendMessage: this.websocket.send only when there is a
\* socket and it is OPEN
agentSendMessage(a, out, message) ==
    IF a.websocket # NULL /\ a.sockets[a.websocket] = "OPEN"
    THEN Append(out, message)
    ELSE out

\* ownBoard[x][y].hasShip
hasShip(c, cell) ==
    \E i \in 1..Len(placedShips(c)) :
        \E k \in 1..Len(placedShips(c)[i].positions) :
            placedShips(c)[i].positions[k] = cell

\* placedShips.find(s => s.id === cell.shipId)
shipAt(c, cell) ==
    LET i == CHOOSE i \in 1..Len(placedShips(c)) :
                 \E k \in 1..Len(placedShips(c)[i].positions) :
                     placedShips(c)[i].positions[k] = cell
    IN  placedShips(c)[i]

\* every cell of the ship is hit on the own board
isShipSunk(ship, ownHits) ==
    \A k \in 1..Len(ship.positions) : ship.positions[k] \in ownHits

\* connectToServer with this name in the field and ws the socket it makes
connectToServer(a, name, ws) ==
    IF name = NoName
    THEN a
    ELSE [a EXCEPT !.playerName = name,
                   !.status = "connecting",
                   !.websocket = ws,
                   !.sockets = @ @@ (ws :> "CONNECTING")]

\* websocket.onopen of any socket of the page: the join_game goes to
\* this.websocket
onopen(c, a) ==
    AgentResult([a EXCEPT !.status = "waiting", !.screen = "waiting-screen"],
                agentSendMessage(a, <<>>, [type |-> "join_game",
                                           playerName |-> a.playerName]))

\* websocket.onclose
onclose(a) == [a EXCEPT !.status = "disconnected"]

\* websocket.onerror
onerror(a) == [a EXCEPT !.status = "disconnected"]

\* initializeSetupBoard ends in initializeShipDock, which adds one more
\* listener of completeSetup to the setup button
handleGameStart(c, a, message) ==
    AgentResult([a EXCEPT !.status = "setup",
                          !.opponentName = message.data.opponentName,
                          !.gameId = message.data.gameId,
                          !.isMyTurn = (message.data.turnOrder = "first"),
                          !.screen = "setup-screen",
                          !.listeners = @ + 1],
                <<>>)

handleOpponentFire(c, a, message) ==
    LET cell == message.data.coordinates
        ownHits == a.ownHits \cup {cell}
        result == IF hasShip(c, cell) THEN "hit" ELSE "miss"
        shipSunk == IF result = "hit" /\ isShipSunk(shipAt(c, cell), ownHits)
                    THEN shipAt(c, cell).type
                    ELSE "null"
    IN  AgentResult([a EXCEPT !.ownHits = ownHits],
                    agentSendMessage(a, <<>>, [type |-> "fire_result",
                                               coordinates |-> cell,
                                               result |-> result,
                                               shipSunk |-> shipSunk]))

handleShotResult(c, a, message) ==
    AgentResult([a EXCEPT !.opponentHits = @ \cup {message.data.coordinates}], <<>>)

handleTurnChange(c, a, message) ==
    AgentResult([a EXCEPT !.isMyTurn = message.data.isYourTurn], <<>>)

handleGameEnd(c, a, message) ==
    AgentResult([a EXCEPT !.status = "finished", !.screen = "game-end-screen"], <<>>)

\* the switch on message.type; an error frame is shown and changes nothing
handleServerMessage(c, a, message) ==
    CASE message.type = "game_start"    -> handleGameStart(c, a, message)
      [] message.type = "opponent_fire" -> handleOpponentFire(c, a, message)
      [] message.type = "shot_result"   -> handleShotResult(c, a, message)
      [] message.type = "game_end"      -> handleGameEnd(c, a, message)
      [] message.type = "turn_change"   -> handleTurnChange(c, a, message)
      [] OTHER                          -> AgentResult(a, <<>>)

\* completeSetup, all ships being placed
completeSetup(c, a) ==
    AgentResult([a EXCEPT !.status = "in_progress", !.screen = "game-screen"],
                agentSendMessage(a, <<>>, [type |-> "setup_complete",
                                           ships |-> placedShips(c)]))

\* a click on the setup button runs every listener it has
RECURSIVE clickSetupComplete(_, _, _, _)
clickSetupComplete(c, a, out, n) ==
    IF n = 0
    THEN AgentResult(a, out)
    ELSE LET r == completeSetup(c, a)
         IN  clickSetupComplete(c, r.agent, out \o r.send, n - 1)

\* a click on a cell of the target board
handleTargetClick(c, a, cell) ==
    IF ~a.isMyTurn
    THEN AgentResult(a, <<>>)
    ELSE IF cell \in a.opponentHits
    THEN AgentResult(a, <<>>)
    ELSE AgentResult([a EXCEPT !.isMyTurn = FALSE],
                     agentSendMessage(a, <<>>, [type |-> "fire",
                                                coordinates |-> cell]))

\* a step of page c: its state and what it puts on the wire; that travels on
\* this.websocket, and what is sent towards a connection the server has closed
\* is lost
AgentBecomes(c, r) ==
    /\ agent' = [agent EXCEPT ![c] = r.agent]
    /\ toServer' = IF r.send = <<>> \/ readyState[r.agent.websocket] = "CLOSED"
                   THEN toServer
                   ELSE [toServer EXCEPT ![r.agent.websocket] = @ \o r.send]

ServerUnchanged ==
    UNCHANGED <<readyState, players, playerData, waitingPlayers, activeGames,
                gamesCreated, lastShooter, gameEnds, submitted, verdict, edits, setup>>

\* how many frames of a type a sequence of frames holds
CountOfType(frames, type) == Len(SelectSeq(frames, LAMBDA f : f.type = type))

\* the turn_change frames among these that go to a connection of page c
TurnChangesTo(sent, c) ==
    Len(SelectSeq(sent, LAMBDA f : f.type = "turn_change" /\ Owner(f.to) = c))

\* the server has run a handler that sent these frames: every opponent_fire is
\* a fire relayed, every shot_result a fire_result relayed, and due remembers
\* for every fire_result relayed how many turn_change frames had been sent to
\* each page when its handler returned
TallySent(sent) ==
    LET owed == [c \in Clients |-> tally.owed[c] + TurnChangesTo(sent, c)] IN
    [tally EXCEPT !.relayed = @ + CountOfType(sent, "opponent_fire"),
                  !.answered = @ + CountOfType(sent, "shot_result"),
                  !.owed = owed,
                  !.due = IF CountOfType(sent, "shot_result") > 0
                          THEN Append(@, [upTo |-> owed,
                                          toEach |-> [c \in Clients |->
                                                         TurnChangesTo(sent, c)]])
                          ELSE @]

\* page c has received this frame
TallyReceived(c, frame) ==
    [tally EXCEPT !.turnChanges[c] = @ + CountOfType(<<frame>>, "turn_change"),
                  !.gameEnds[c] = @ + CountOfType(<<frame>>, "game_end")]

\* the frames the server has sent reach the connections whose page still has
\* them
Carried(sent) ==
    [ws \in DOMAIN toClient |->
        IF agent[Owner(ws)].sockets[ws] = "CLOSED"
        THEN toClient[ws]
        ELSE toClient[ws] \o SelectSeq(sent, LAMBDA f : f.to = ws)]

\* the Join button, or Enter in the name field, while the connection screen is
\* shown; ws is the connection made
ConnectToServer(c) ==
    /\ agent[c].screen = "connection-screen"
    /\ Cardinality(DOMAIN readyState) < MaxSockets
    /\ \E name \in {NoName, playerNameOf(c)} :
         LET ws == Cardinality(DOMAIN readyState) + 1
             a == connectToServer(agent[c], name, ws)
         IN  /\ agent' = [agent EXCEPT ![c] = a]
             /\ IF name = NoName
                THEN UNCHANGED <<readyState, players, toServer, toClient>>
                ELSE /\ readyState' = readyState @@ (ws :> "OPEN")
                     /\ players' = players @@ (ws :> NULL)
                     /\ toServer' = toServer @@ (ws :> <<>>)
                     /\ toClient' = toClient @@ (ws :> <<>>)
    /\ UNCHANGED <<playerData, waitingPlayers, activeGames, gamesCreated, lastShooter,
                   gameEnds, submitted, verdict, edits, tally, setup>>

\* the 'open' event of connection ws
SocketOpen(ws) ==
    /\ agent[Owner(ws)].sockets[ws] = "CONNECTING"
    /\ AgentBecomes(Owner(ws),
                    onopen(Owner(ws), [agent[Owner(ws)] EXCEPT !.sockets[ws] = "OPEN"]))
    /\ UNCHANGED <<toClient, tally>>
    /\ ServerUnchanged

\* websocket.onmessage: the oldest frame in flight on ws arrives
ClientReceive(ws) ==
    /\ toClient[ws] # <<>>
    /\ agent[Owner(ws)].sockets[ws] = "OPEN"
    /\ AgentBecomes(Owner(ws),
                    handleServerMessage(Owner(ws), agent[Owner(ws)], Head(toClient[ws])))
    /\ toClient' = [toClient EXCEPT ![ws] = Tail(@)]
    /\ tally' = TallyReceived(Owner(ws), Head(toClient[ws]))
    /\ ServerUnchanged

\* the setup button on the setup screen
ClientCompleteSetup(c) ==
    /\ agent[c].screen = "setup-screen"
    /\ AgentBecomes(c, clickSetupComplete(c, agent[c], <<>>, agent[c].listeners))
    /\ UNCHANGED <<toClient, tally>>
    /\ ServerUnchanged

\* a cell of the target board on the game screen
ClientTargetClick(c, cell) ==
    /\ agent[c].screen = "game-screen"
    /\ agent[1].clicks + agent[2].clicks < MaxClicks
    /\ AgentBecomes(c, LET r == handleTargetClick(c, agent[c], cell)
                       IN  [r EXCEPT !.agent.clicks = @ + 1])
    /\ UNCHANGED <<toClient, tally>>
    /\ ServerUnchanged

\* the server's message listener runs on the oldest message in flight on ws
ServerReceive(ws) ==
    /\ toServer[ws] # <<>>
    /\ readyState[ws] # "CLOSED"
    /\ LET r == handleClientMessage(server, ws, Head(toServer[ws]))
       IN  /\ BecomesServer(r)
           /\ toClient' = Carried(r.sent)
           /\ tally' = TallySent(r.sent)
    /\ toServer' = [toServer EXCEPT ![ws] = Tail(@)]
    /\ UNCHANGED <<submitted, verdict, edits, agent, setup>>

\* one side of connection ws has seen it close
Down(ws) == readyState[ws] = "CLOSED" \/ agent[Owner(ws)].sockets[ws] = "CLOSED"

\* ws is going down already, or one more connection may
MayGoDown(ws) ==
    Down(ws) \/ Cardinality({w \in DOMAIN readyState : Down(w)}) < MaxCloses

\* the page's side of connection ws goes down, with an 'error' event before
\* the 'close' event when the connection failed; the frames in flight to the
\* page are lost
SocketClosed(ws) ==
    /\ agent[Owner(ws)].sockets[ws] # "CLOSED"
    /\ MayGoDown(ws)
    /\ \E failed \in BOOLEAN :
         LET a == [agent[Owner(ws)] EXCEPT !.sockets[ws] = "CLOSED"]
         IN  agent' = [agent EXCEPT ![Owner(ws)] =
                          IF failed THEN onclose(onerror(a)) ELSE onclose(a)]
    /\ toClient' = [toClient EXCEPT ![ws] = <<>>]
    /\ UNCHANGED <<toServer, tally>>
    /\ ServerUnchanged

\* the server's 'close' event of connection ws; the messages in flight to the
\* server are lost
ServerClose(ws) ==
    /\ readyState[ws] # "CLOSED"
    /\ MayGoDown(ws)
    /\ LET r == onClose(server, ws)
       IN  /\ BecomesServer(r)
           /\ toClient' = Carried(r.sent)
           /\ tally' = TallySent(r.sent)
    /\ toServer' = [toServer EXCEPT ![ws] = <<>>]
    /\ UNCHANGED <<submitted, verdict, edits, agent, setup>>

\* the play-again button of the game-end screen: location.reload() ends the
\* page with its sockets and the constructor runs on the new page
PlayAgain(c) ==
    /\ agent[c].screen = "game-end-screen"
    /\ agent' = [agent EXCEPT ![c] =
                    [newAgent EXCEPT !.sockets = [ws \in DOMAIN agent[c].sockets |-> "CLOSED"],
                                     !.clicks = agent[c].clicks]]
    /\ toClient' = [ws \in DOMAIN toClient |->
                       IF ws \in DOMAIN agent[c].sockets THEN <<>> ELSE toClient[ws]]
    /\ UNCHANGED <<toServer, tally>>
    /\ ServerUnchanged

\* the two pages loaded, the server started
InitClients ==
    /\ readyState = <<>>
    /\ players = <<>>
    /\ playerData = <<>>
    /\ waitingPlayers = <<>>
    /\ activeGames = <<>>
    /\ gamesCreated = 0
    /\ lastShooter = <<>>
    /\ gameEnds = <<>>
    /\ submitted = NoShips
    /\ verdict = FALSE
    /\ edits = 0
    /\ agent = [c \in Clients |-> newAgent]
    /\ toServer = <<>>
    /\ toClient = <<>>
    /\ tally = [relayed |-> 0, answered |-> 0,
                turnChanges |-> [c \in Clients |-> 0],
                gameEnds |-> [c \in Clients |-> 0],
                owed |-> [c \in Clients |-> 0],
                due |-> <<>>]
    /\ setup = <<>>

\* what happens while every connection stays up
NextConnected ==
    \/ \E c \in Clients : ConnectToServer(c)
    \/ \E ws \in DOMAIN readyState : SocketOpen(ws)
    \/ \E ws \in DOMAIN readyState : ClientReceive(ws)
    \/ \E c \in Clients : ClientCompleteSetup(c)
    \/ \E c \in Clients : \E cell \in Coords : ClientTargetClick(c, cell)
    \/ \E ws \in DOMAIN readyState : ServerReceive(ws)

NextClients ==
    \/ NextConnected
    \/ \E ws \in DOMAIN readyState : SocketClosed(ws)
    \/ \E ws \in DOMAIN readyState : ServerClose(ws)
    \/ \E c \in Clients : PlayAgain(c)

SpecClients == InitClients /\ [][NextClients]_vars

SpecConnected == InitClients /\ [][NextConnected]_vars

\* a frame in flight to a page is received by it
ClientDeliver == \E ws \in DOMAIN readyState : ClientReceive(ws)

\* a message in flight to the server is received by it
ServerDeliver == \E ws \in DOMAIN readyState : ServerReceive(ws)

\* some message is in flight to the server on a connection it has. ServerReceive
\* has no other guard and it shortens that queue, so this is
\* ENABLED <<ServerDeliver>>_vars.
ServerInFlight ==
    \E ws \in DOMAIN readyState : toServer[ws] # <<>> /\ readyState[ws] # "CLOSED"

\* fair message delivery in both directions: while frames are in flight to the
\* pages one of them is received, and while messages are in flight to the
\* server one of them is received. The second conjunct is WF_vars(ServerDeliver)
\* with its ENABLED written as ServerInFlight. What the users do (the buttons,
\* the clicks) and when a connection opens is left free.
FairDelivery ==
    /\ WF_vars(ClientDeliver)
    /\ []<>(~ServerInFlight) \/ []<><<ServerDeliver>>_vars

FairSpecClients == SpecConnected /\ FairDelivery

\* ================================================= the client's setup screen
\* One BattleshipsAgent on its setup screen. A ship gets on ownBoard in two
\* events: dragstart on a dock item remembers the item in currentDraggedShip,
\* and a later drop or click on a cell of the board places the remembered ship
\* where canPlaceShip allows it. The random button clears the board and places
\* every kind. The setup button sends the fleet in a setup_complete message,
\* which the server handles when it arrives. The listeners of the dock and of
\* the two buttons are added by initializeShipDock, which runs at every
\* game_start.
\* The page's this.websocket is connection 1 of the server. Connection 2 is
\* the opponent of the page's first game, connection 3 a player waiting in the
\* lobby; both have joined and may go down, and send nothing else. The page may
\* hold an older socket from a first press of the Join button, which carries
\* no traffic.

\* this.shipTypes: the length of every kind, in the order of the dock; a dock
\* item carries its kind and this length in data-ship and data-length
shipTypes ==
    <<[type |-> "carrier", length |-> 5], [type |-> "battleship", length |-> 4],
      [type |-> "cruiser", length |-> 3], [type |-> "submarine", length |-> 3],
      [type |-> "destroyer", length |-> 2]>>

\* the cells of the setup board a ship is dropped on: from the corner every
\* kind fits in both orientations; from (6,6) a ship of 4 cells just fits in
\* both; from (7,6) one of 4 fits lying and one of 3 standing; from (8,8) one of
\* 2 fits in both, and from (9,8) only lying
Anchors == {<<0, 0>>, <<6, 6>>, <<7, 6>>, <<8, 8>>, <<9, 8>>}

\* what Math.random yields during one randomPlacement, as the row, column and
\* orientation of the attempts in the order they are made; the attempts after
\* the last one start again with the first
RandomDraws ==
    {<<[row |-> 0, col |-> 0, orientation |-> "horizontal"],
       [row |-> 0, col |-> 2, orientation |-> "horizontal"],
       [row |-> 1, col |-> 0, orientation |-> "horizontal"],
       [row |-> 2, col |-> 0, orientation |-> "horizontal"],
       [row |-> 3, col |-> 0, orientation |-> "horizontal"],
       [row |-> 8, col |-> 9, orientation |-> "vertical"]>>,
     <<[row |-> 0, col |-> 0, orientation |-> "vertical"],
       [row |-> 7, col |-> 5, orientation |-> "vertical"],
       [row |-> 0, col |-> 1, orientation |-> "vertical"],
       [row |-> 0, col |-> 2, orientation |-> "vertical"],
       [row |-> 0, col |-> 3, orientation |-> "vertical"],
       [row |-> 0, col |-> 4, orientation |-> "vertical"]>>}

\* ownBoard is the set of cells with hasShip
canPlaceShip(ownBoard, row, col, length, orientation) ==
    IF orientation = "horizontal"
    THEN /\ ~(col + length > 10)
         /\ \A i \in 0..(length - 1) : <<row, col + i>> \notin ownBoard
    ELSE /\ ~(row + length > 10)
         /\ \A i \in 0..(length - 1) : <<row + i, col>> \notin ownBoard

placeShip(s, row, col, type, length, orientation) ==
    LET positions == [i \in 1..length |-> IF orientation = "horizontal"
                                          THEN <<row, col + i - 1>>
                                          ELSE <<row + i - 1, col>>] IN
    [s EXCEPT !.ownBoard = @ \cup {positions[i] : i \in 1..length},
              !.placedShips = Append(@, [type |-> type, positions |-> positions,
                                         orientation |-> orientation])]

\* placeShip and the class 'placed' on the dock item of the kind
placeAndMark(s, row, col, type, length, orientation) ==
    [placeShip(s, row, col, type, length, orientation) EXCEPT !.placed = @ \cup {type}]

\* dragstart on the k-th dock item; currentDraggedShip is the place of the
\* remembered item in the dock, NULL for none
handleDragStart(s, k) ==
    IF shipTypes[k].type \in s.placed
    THEN s
    ELSE [s EXCEPT !.currentDraggedShip = k]

\* drop on a cell of the board
handleDrop(s, row, col) ==
    IF s.currentDraggedShip = NULL
    THEN s
    ELSE LET ship == shipTypes[s.currentDraggedShip]
             after == IF canPlaceShip(s.ownBoard, row, col, ship.length, s.shipOrientation)
                      THEN placeAndMark(s, row, col, ship.type, ship.length,
                                        s.shipOrientation)
                      ELSE s
         IN  [after EXCEPT !.currentDraggedShip = NULL]

\* click on a cell of the board
handleCellClick(s, row, col) ==
    IF s.currentDraggedShip = NULL
    THEN s
    ELSE LET ship == shipTypes[s.currentDraggedShip] IN
         IF canPlaceShip(s.ownBoard, row, col, ship.length, s.shipOrientation)
         THEN [placeAndMark(s, row, col, ship.type, ship.length, s.shipOrientation)
                  EXCEPT !.currentDraggedShip = NULL]
         ELSE s

\* the contextmenu listener of a dock item
handleShipRotate(s) ==
    [s EXCEPT !.shipOrientation = IF @ = "horizontal" THEN "vertical" ELSE "horizontal"]

\* the contextmenu listener of the document
rotateGlobally(s) == IF s.status = "setup" THEN handleShipRotate(s) ELSE s

clearAllPlacements(s) == [s EXCEPT !.ownBoard = {}, !.placedShips = <<>>, !.placed = {}]

\* the forEach of randomPlacement from the k-th kind on: the while loop of a
\* kind takes draws until canPlaceShip allows one, 100 at most; next is the
\* place of the coming draw
RECURSIVE placeRandomly(_, _, _, _, _)
placeRandomly(s, k, attempts, draws, next) ==
    IF k > Len(shipTypes)
    THEN s
    ELSE IF ~(attempts < 100)
    THEN placeRandomly(s, k + 1, 0, draws, next)
    ELSE LET d == draws[next]
             following == (next % Len(draws)) + 1
         IN  IF canPlaceShip(s.ownBoard, d.row, d.col, shipTypes[k].length, d.orientation)
             THEN placeRandomly(placeAndMark(s, d.row, d.col, shipTypes[k].type,
                                             shipTypes[k].length, d.orientation),
                                k + 1, 0, draws, following)
             ELSE placeRandomly(s, k, attempts + 1, draws, following)

randomPlacement(s, draws) == placeRandomly(clearAllPlacements(s), 1, 0, draws, 1)

\* websocket.onmessage on the setup screen's state. handleGameStart:
\* initializeShipDock takes the class 'placed' off every dock item and adds
\* the listeners once more. handleGameEnd shows the game-end screen. The other
\* frames leave what the setup screen holds as it is.
onmessage(s, message) ==
    CASE message.type = "game_start" ->
             [s EXCEPT !.status = "setup", !.screen = "setup-screen", !.placed = {},
                       !.listeners = @ + 1,
                       !.isMyTurn = message.data.turnOrder = "first"]
      [] message.type = "shot_result" ->
             [s EXCEPT !.opponentHits = @ \cup {message.data.coordinates}]
      [] message.type = "turn_change" ->
             [s EXCEPT !.isMyTurn = message.data.isYourTurn]
      [] message.type = "game_end" ->
             [s EXCEPT !.status = "finished", !.screen = "game-end-screen"]
      [] OTHER -> s

\* completeSetup on the page's state
setupCompleted(s) ==
    IF Len(s.placedShips) # Len(shipTypes)
    THEN s
    ELSE [s EXCEPT !.status = "in_progress", !.screen = "game-screen"]

\* an event runs its listener once for every time initializeShipDock added
\* it, on what the event carries: the dock item of a dragstart, the draws of a
\* random placement
RECURSIVE dispatch(_, _, _, _)
dispatch(event, detail, n, s) ==
    IF n = 0 THEN s
    ELSE dispatch(event, detail, n - 1,
                  CASE event = "dragstart"      -> handleDragStart(s, detail)
                    [] event = "contextmenu"    -> handleShipRotate(s)
                    [] event = "random"         -> randomPlacement(s, detail)
                    [] event = "setup-complete" -> setupCompleted(s))

SetupBecomes(s) ==
    /\ setup' = s
    /\ UNCHANGED <<readyState, players, playerData, waitingPlayers, activeGames,
                   gamesCreated, lastShooter, gameEnds, submitted, verdict, edits,
                   agent, toServer, toClient, tally>>

\* the frames of a handler's output that reach the page: those sent to
\* connection 1 while the page's side of it is up
SetupCarried(sent) ==
    IF setup.readyState = "CLOSED"
    THEN toClient
    ELSE <<toClient[1] \o SelectSeq(sent, LAMBDA f : f.to = 1)>>

\* the page's message listener runs on the oldest frame in flight to it
SetupReceive ==
    /\ toClient[1] # <<>>
    /\ setup.readyState = "OPEN"
    /\ setup' = onmessage(setup, Head(toClient[1]))
    /\ toClient' = <<Tail(toClient[1])>>
    /\ UNCHANGED <<readyState, players, playerData, waitingPlayers, activeGames,
                   gamesCreated, lastShooter, gameEnds, submitted, verdict, edits,
                   agent, toServer, tally>>

DragStart(k) ==
    /\ setup.screen = "setup-screen"
    /\ SetupBecomes(dispatch("dragstart", k, setup.listeners, setup))

Drop(cell) ==
    /\ setup.screen = "setup-screen"
    /\ SetupBecomes(handleDrop(setup, cell[1], cell[2]))

CellClick(cell) ==
    /\ setup.screen = "setup-screen"
    /\ SetupBecomes(handleCellClick(setup, cell[1], cell[2]))

\* a right-click on a dock item: the listeners of the item, then the one of
\* the document the event bubbles to
RotateDock ==
    /\ setup.screen = "setup-screen"
    /\ SetupBecomes(rotateGlobally(dispatch("contextmenu", NULL, setup.listeners, setup)))

\* a right-click anywhere else
RotateElsewhere == SetupBecomes(rotateGlobally(setup))

\* the random button
RandomPlacement ==
    /\ setup.screen = "setup-screen"
    /\ \E draws \in RandomDraws :
           SetupBecomes(dispatch("random", draws, setup.listeners, setup))

\* the setup button, enabled when placedShips holds as many ships as there are
\* kinds: every listener of the button runs completeSetup, whose sendMessage
\* puts setup_complete on the wire when this.websocket is OPEN; what is sent
\* towards a connection the server has closed is lost
PressSetupComplete ==
    /\ setup.screen = "setup-screen"
    /\ Len(setup.placedShips) = Len(shipTypes)
    /\ setup' = dispatch("setup-complete", NULL, setup.listeners, setup)
    /\ LET \* placedShips.map(ship => ({type, positions}))
           ships == [i \in 1..Len(setup.placedShips) |->
                        [type |-> setup.placedShips[i].type,
                         positions |-> setup.placedShips[i].positions]]
       IN  toServer' =
               IF setup.readyState = "OPEN" /\ readyState[1] # "CLOSED"
               THEN <<toServer[1] \o
                      [k \in 1..setup.listeners |->
                          [type |-> "setup_complete", ships |-> ships]]>>
               ELSE toServer
    /\ UNCHANGED <<readyState, players, playerData, waitingPlayers, activeGames,
                   gamesCreated, lastShooter, gameEnds, submitted, verdict, edits,
                   agent, toClient, tally>>

\* a click on a cell of the target board, which completeSetup has made and
\* shown: handleTargetClick sends fire when it is the page's turn and the cell
\* was not shot at before
TargetClick(cell) ==
    /\ setup.screen = "game-screen"
    /\ setup.isMyTurn
    /\ cell \notin setup.opponentHits
    /\ setup' = [setup EXCEPT !.isMyTurn = FALSE]
    /\ toServer' =
           IF setup.readyState = "OPEN" /\ readyState[1] # "CLOSED"
           THEN <<Append(toServer[1], [type |-> "fire", coordinates |-> cell])>>
           ELSE toServer
    /\ UNCHANGED <<readyState, players, playerData, waitingPlayers, activeGames,
                   gamesCreated, lastShooter, gameEnds, submitted, verdict, edits,
                   agent, toClient, tally>>

\* websocket.onopen of the page's older socket: the join_game goes out on
\* this.websocket
OlderSocketOpen ==
    /\ setup.older = "CONNECTING"
    /\ setup' = [setup EXCEPT !.older = "OPEN", !.status = "waiting",
                              !.screen = "waiting-screen"]
    /\ toServer' =
           IF setup.readyState = "OPEN" /\ readyState[1] # "CLOSED"
           THEN <<Append(toServer[1], JoinMessage(1))>>
           ELSE toServer
    /\ UNCHANGED <<readyState, players, playerData, waitingPlayers, activeGames,
                   gamesCreated, lastShooter, gameEnds, submitted, verdict, edits,
                   agent, toClient, tally>>

\* the connections that have gone down, on either side
SetupDowns ==
    Cardinality({ws \in DOMAIN readyState : readyState[ws] = "CLOSED"}
                \cup (IF setup.readyState = "CLOSED" THEN {1} ELSE {})
                \cup (IF setup.older = "CLOSED" THEN {0} ELSE {}))

\* websocket.onclose of a socket of the page, after websocket.onerror when the
\* connection failed: both set the status. With this.websocket the frames in
\* flight to the page are lost.
SetupSocketClosed(socket) ==
    /\ \/ /\ socket = "websocket"
          /\ setup.readyState = "OPEN"
          /\ readyState[1] = "CLOSED" \/ SetupDowns < MaxCloses
          /\ setup' = [setup EXCEPT !.status = "disconnected", !.readyState = "CLOSED"]
          /\ toClient' = <<<<>>>>
       \/ /\ socket = "older"
          /\ setup.older \in {"CONNECTING", "OPEN"}
          /\ SetupDowns < MaxCloses
          /\ setup' = [setup EXCEPT !.status = "disconnected", !.older = "CLOSED"]
          /\ UNCHANGED toClient
    /\ UNCHANGED <<readyState, players, playerData, waitingPlayers, activeGames,
                   gamesCreated, lastShooter, gameEnds, submitted, verdict, edits,
                   agent, toServer, tally>>

\* the server's message listener runs on the oldest message in flight from the
\* page; handleSetupComplete hands the fleet to validateShipPlacement when the
\* connection's Player is in a session
SetupServerReceive ==
    /\ toServer[1] # <<>>
    /\ readyState[1] # "CLOSED"
    /\ LET message == Head(toServer[1])
           r == handleClientMessage(server, 1, message)
           player == players[1]
           validated == /\ message.type = "setup_complete"
                        /\ player # NULL
                        /\ playerData[player].gameId # NULL
                        /\ playerData[player].gameId \in DOMAIN activeGames
       IN  /\ BecomesServer(r)
           /\ toClient' = SetupCarried(r.sent)
           /\ submitted' = IF validated THEN message.ships ELSE submitted
           /\ verdict' = IF validated THEN validateShipPlacement(message.ships)
                         ELSE verdict
    /\ toServer' = <<Tail(toServer[1])>>
    /\ UNCHANGED <<edits, agent, tally, setup>>

\* the server's close listener of a connection; what the page has sent on its
\* connection and the server has not received is lost
SetupServerClose(ws) ==
    /\ readyState[ws] # "CLOSED"
    /\ (ws = 1 /\ setup.readyState = "CLOSED") \/ SetupDowns < MaxCloses
    /\ LET r == onClose(server, ws)
       IN  /\ BecomesServer(r)
           /\ toClient' = SetupCarried(r.sent)
    /\ toServer' = IF ws = 1 THEN <<<<>>>> ELSE toServer
    /\ UNCHANGED <<submitted, verdict, edits, agent, tally, setup>>

\* The page has joined through this.websocket and shows the waiting screen;
\* the server has handled the join_game of the page's connection 1 and of
\* connection 2, in either order, and then the one of connection 3, and the
\* game_start of the first game is in flight to the page. The Join button was
\* pressed once, or twice with the older socket still connecting.
InitSetup ==
    \E first \in {1, 2}, older \in {"none", "CONNECTING"} :
        LET S0 == [readyState |-> [ws \in 1..3 |-> "OPEN"],
                   players |-> [ws \in 1..3 |-> NULL],
                   playerData |-> <<>>, waitingPlayers |-> <<>>, activeGames |-> <<>>,
                   gamesCreated |-> 0, lastShooter |-> <<>>, gameEnds |-> <<>>]
            r1 == handleJoinGame(S0, first, JoinMessage(first))
            r2 == handleJoinGame(r1.state, 3 - first, JoinMessage(3 - first))
            r3 == handleJoinGame(r2.state, 3, JoinMessage(3))
        IN  /\ readyState = r3.state.readyState
            /\ players = r3.state.players
            /\ playerData = r3.state.playerData
            /\ waitingPlayers = r3.state.waitingPlayers
            /\ activeGames = r3.state.activeGames
            /\ gamesCreated = r3.state.gamesCreated
            /\ lastShooter = r3.state.lastShooter
            /\ gameEnds = r3.state.gameEnds
            /\ submitted = NoShips
            /\ verdict = FALSE
            /\ edits = 0
            /\ agent = <<>>
            /\ toServer = <<<<>>>>
            /\ toClient = <<SelectSeq(r2.sent, LAMBDA f : f.to = 1)>>
            /\ tally = <<>>
            /\ setup = [status |-> "waiting", screen |-> "waiting-screen",
                        placedShips |-> <<>>, ownBoard |-> {}, placed |-> {},
                        currentDraggedShip |-> NULL, shipOrientation |-> "horizontal",
                        listeners |-> 0, isMyTurn |-> FALSE, opponentHits |-> {},
                        readyState |-> "OPEN", older |-> older]

NextSetup ==
    \/ SetupReceive
    \* the dock items dragged by hand, by their place in the dock: carrier,
    \* battleship and destroyer; the cruiser and the submarine get on the board
    \* by the random button
    \/ \E k \in {1, 2, 5} : DragStart(k)
    \/ \E cell \in Anchors : Drop(cell)
    \/ \E cell \in Anchors : CellClick(cell)
    \/ RotateDock
    \/ RotateElsewhere
    \/ RandomPlacement
    \/ PressSetupComplete
    \/ \E cell \in Coords : TargetClick(cell)
    \/ OlderSocketOpen
    \/ \E socket \in {"websocket", "older"} : SetupSocketClosed(socket)
    \/ SetupServerReceive
    \/ \E ws \in DOMAIN readyState : SetupServerClose(ws)

SpecSetup == InitSetup /\ [][NextSetup]_vars

\* ======================================================== the properties
\* The statements below are about a socket ws that hands the server a message
\* while it is OPEN; the sender's Player is the record this.players holds for
\* ws, and a frame counts as sent when sendMessage passes it to ws.send, which
\* it does for an open socket only. A message that arrives while its socket is
\* closing is handled in the same way, except that nothing is sent to that
\* socket.

Sockets == DOMAIN readyState

IsOpen(ws) == readyState[ws] = "OPEN"

\* the Player of ws is a member of a session still in activeGames
InLiveGame(ws) ==
    /\ players[ws] # NULL
    /\ playerData[players[ws]].gameId # NULL
    /\ playerData[players[ws]].gameId \in DOMAIN activeGames

GameOf(ws) == activeGames[playerData[players[ws]].gameId]

IndexOf(ws) == IF GameOf(ws).players[0] = players[ws] THEN 0 ELSE 1

\* the socket of member i of game
SocketOf(game, i) == playerData[game.players[i]].ws

FramesOfType(frames, type) == SelectSeq(frames, LAMBDA f : f.type = type)

FramesTo(frames, ws) == SelectSeq(frames, LAMBDA f : f.to = ws)

\* of the frames meant for the two members, those whose socket is open
ToOpenSockets(frames) == SelectSeq(frames, LAMBDA f : IsOpen(f.to))

ErrorTo(frames, ws) ==
    /\ Len(frames) = 1
    /\ frames[1].to = ws
    /\ frames[1].type = "error"

\* ws is the member of an in_progress session whose turn it is not
OutOfTurn(ws) ==
    /\ IsOpen(ws)
    /\ InLiveGame(ws)
    /\ GameOf(ws).status = "in_progress"
    /\ IndexOf(ws) # GameOf(ws).currentTurn

\* ws is the defender of a relayed fire that still awaits its fire_result
AnswersFire(ws) ==
    /\ IsOpen(ws)
    /\ InLiveGame(ws)
    /\ GameOf(ws).status = "in_progress"
    /\ lastShooter[GameOf(ws).id].pending
    /\ lastShooter[GameOf(ws).id].index = 1 - IndexOf(ws)
    /\ GameOf(ws).currentTurn = 1 - IndexOf(ws)

\* ---------------------------------------------------------------------- C1
\* C1: in an in_progress session a fire from the member whose index is not
\* currentTurn gets one error frame, sent to that sender; nothing else is sent
\* (no opponent_fire) and the server's state, currentTurn and status included,
\* is what it was.
C1_OutOfTurnFireRejected ==
    \A ws \in Sockets, m \in FireMessages :
        OutOfTurn(ws) =>
            LET r == handleClientMessage(server, ws, m) IN
            /\ ErrorTo(r.sent, ws)
            /\ r.state = server

C1_Witness ==
    \E ws \in Sockets, m \in FireMessages :
        /\ OutOfTurn(ws)
        /\ IsOpen(SocketOf(GameOf(ws), 1 - IndexOf(ws)))
        /\ handleClientMessage(server, ws, m).sent
             = <<[to |-> ws, type |-> "error", data |-> [message |-> "Not your turn"]]>>

\* ---------------------------------------------------------------------- C2
\* C2: when the defender answers a relayed fire with a hit that sinks its last
\* ship, game_end goes to both members naming the shooter, the session ends
\* (it is finished with the shooter as winner, or gone from activeGames) and
\* no turn_change is sent.
C2_LastShipEndsGame ==
    \A ws \in Sockets, m \in FireResultMessages :
        (AnswersFire(ws) /\ m.result = "hit" /\ m.lastShip) =>
            LET r == handleClientMessage(server, ws, m)
                game == GameOf(ws)
                shooter == game.players[1 - IndexOf(ws)]
                ends == [i \in 1..2 |->
                            [to |-> SocketOf(game, i - 1), type |-> "game_end",
                             data |-> [winner |-> playerData[shooter].name]]]
            IN  /\ \A i \in 1..2 :
                      IsOpen(ends[i].to) =>
                          \E k \in 1..Len(r.sent) : r.sent[k] = ends[i]
                /\ \/ game.id \notin DOMAIN r.state.activeGames
                   \/ /\ r.state.activeGames[game.id].status = "finished"
                      /\ r.state.activeGames[game.id].winner = shooter
                /\ FramesOfType(r.sent, "turn_change") = <<>>

\* ---------------------------------------------------------------------- C3
\* C3: when the defender answers a relayed fire with a miss, currentTurn
\* becomes 1 - currentTurn and the turn_change frames sent are exactly one to
\* each member, with isYourTurn true for the member whose index is the new
\* currentTurn and false for the other.
C3_MissFlipsTurn ==
    \A ws \in Sockets, m \in FireResultMessages :
        (AnswersFire(ws) /\ m.result = "miss") =>
            LET r == handleClientMessage(server, ws, m)
                game == GameOf(ws)
                turn == 1 - game.currentTurn
                changes == [i \in 1..2 |->
                               [to |-> SocketOf(game, i - 1), type |-> "turn_change",
                                data |-> [isYourTurn |-> (i - 1 = turn)]]]
            IN  /\ r.state.activeGames[game.id].currentTurn = turn
                /\ r.state.activeGames[game.id].status = "in_progress"
                /\ FramesOfType(r.sent, "turn_change") = ToOpenSockets(changes)

C3_Witness ==
    \E ws \in Sockets, m \in FireResultMessages :
        /\ AnswersFire(ws)
        /\ m.result = "miss"
        /\ GameOf(ws).currentTurn = 1
        /\ IsOpen(SocketOf(GameOf(ws), 1))
        /\ Len(FramesOfType(handleClientMessage(server, ws, m).sent, "turn_change")) = 2

\* ---------------------------------------------------------------------- C4
\* C4: the fires the server relays alternate: a fire relayed as opponent_fire
\* never comes from the member whose fire was the last one relayed in that
\* session.
C4_FiresAlternate ==
    \A ws \in Sockets, m \in FireMessages :
        (IsOpen(ws) /\ InLiveGame(ws)) =>
            LET r == handleClientMessage(server, ws, m) IN
            FramesOfType(r.sent, "opponent_fire") # <<>> =>
                lastShooter[GameOf(ws).id].index # IndexOf(ws)

\* ---------------------------------------------------------------------- C5
\* C5: a session is in_progress only if both members have had a fleet
\* accepted; with one member accepted and the other not, it is still in setup.
C5_InProgressNeedsBothFleets ==
    \A g \in DOMAIN activeGames :
        activeGames[g].status = "in_progress" =>
            \A i \in {0, 1} :
                /\ playerData[activeGames[g].players[i]].setupComplete
                /\ validateShipPlacement(playerData[activeGames[g].players[i]].ships)

C5_Witness ==
    \E g \in DOMAIN activeGames :
        /\ activeGames[g].status = "setup"
        /\ \E i \in {0, 1} :
              /\ playerData[activeGames[g].players[i]].setupComplete
              /\ ~playerData[activeGames[g].players[1 - i]].setupComplete

\* ---------------------------------------------------------------------- C6
\* C6: when a setup_complete moves a session from setup to in_progress,
\* currentTurn is 0 and the turn_change frames tell index 0 isYourTurn = true
\* and index 1 isYourTurn = false.
C6_StartsWithIndexZero ==
    \A ws \in Sockets, m \in SetupMessages :
        (IsOpen(ws) /\ InLiveGame(ws) /\ GameOf(ws).status = "setup") =>
            LET r == handleClientMessage(server, ws, m)
                game == GameOf(ws)
                changes == [i \in 1..2 |->
                               [to |-> SocketOf(game, i - 1), type |-> "turn_change",
                                data |-> [isYourTurn |-> (i = 1)]]]
            IN  r.state.activeGames[game.id].status = "in_progress" =>
                    /\ r.state.activeGames[game.id].currentTurn = 0
                    /\ FramesOfType(r.sent, "turn_change") = ToOpenSockets(changes)

\* ---------------------------------------------------------------------- C7
\* the first n joins came over n different sockets, none of them closed since
FirstJoins(n) ==
    /\ \A p, q \in 1..n : p # q => playerData[p].ws # playerData[q].ws
    /\ \A p \in 1..n : readyState[playerData[p].ws] # "CLOSED"

\* a session with exactly the Players a and b is in activeGames
Paired(a, b) ==
    \E g \in DOMAIN activeGames :
        {activeGames[g].players[0], activeGames[g].players[1]} = {a, b}

\* C7: on a fresh server, once A and B have joined over two sockets a session
\* of exactly A and B exists; when C has joined over a third socket C is the
\* one Player in the wait queue and in no session; and once a fourth join has
\* been handled C is in a session with the Player of that fourth join and the
\* queue is empty.
C7_ThirdWaitsForFourth ==
    /\ (Len(playerData) = 2 /\ FirstJoins(2)) =>
           /\ Paired(1, 2)
           /\ waitingPlayers = <<>>
    /\ (Len(playerData) = 3 /\ FirstJoins(3)) =>
           /\ Paired(1, 2)
           /\ DOMAIN activeGames = {1}
           /\ waitingPlayers = <<3>>
           /\ playerData[3].gameId = NULL
    /\ (Len(playerData) = 4 /\ FirstJoins(3)
          /\ readyState[playerData[4].ws] # "CLOSED") =>
           /\ Paired(1, 2)
           /\ Paired(3, 4)
           /\ waitingPlayers = <<>>

C7_Witness ==
    /\ Len(playerData) = 4
    /\ FirstJoins(4)
    /\ Paired(1, 2)
    /\ Paired(3, 4)

\* ---------------------------------------------------------------------- C8
\* the session a join of ws creates, in the state the handler leaves
NewGame(r) == r.state.activeGames[r.state.gamesCreated]

\* C8 as claimed: a join that finds a waiter makes the dequeued waiter index 0,
\* told turnOrder "first", and the arrival index 1, told "second".
C8_WaiterIsIndexZero ==
    \A ws \in Sockets :
        (IsOpen(ws) /\ waitingPlayers # <<>>) =>
            LET r == handleClientMessage(server, ws, JoinMessage(ws))
                waiter == Head(waitingPlayers)
                arrival == r.state.players[ws]
            IN  /\ NewGame(r).players[0] = waiter
                /\ NewGame(r).players[1] = arrival
                /\ \A k \in 1..Len(r.sent) :
                      r.sent[k].type = "game_start" =>
                          r.sent[k].data.turnOrder =
                              IF r.sent[k].to = playerData[waiter].ws
                              THEN "first" ELSE "second"

\* C8 amended: a join that finds a waiter dequeues the oldest one and creates a
\* session in setup with currentTurn 0 whose index 0 is the arrival, told
\* turnOrder "first", and whose index 1 is the waiter, told "second".
C8_ArrivalIsIndexZero ==
    \A ws \in Sockets :
        (IsOpen(ws) /\ waitingPlayers # <<>>) =>
            LET r == handleClientMessage(server, ws, JoinMessage(ws))
                waiter == Head(waitingPlayers)
                arrival == r.state.players[ws]
                starts == <<[to |-> ws, type |-> "game_start",
                             data |-> [gameId |-> NewGame(r).id,
                                       opponentName |-> playerData[waiter].name,
                                       turnOrder |-> "first"]],
                            [to |-> playerData[waiter].ws, type |-> "game_start",
                             data |-> [gameId |-> NewGame(r).id,
                                       opponentName |-> playerNameOf(ws),
                                       turnOrder |-> "second"]]>>
            IN  /\ r.state.gamesCreated = gamesCreated + 1
                /\ arrival = Len(playerData) + 1
                /\ r.state.waitingPlayers = Tail(waitingPlayers)
                /\ NewGame(r).players[0] = arrival
                /\ NewGame(r).players[1] = waiter
                /\ NewGame(r).currentTurn = 0
                /\ NewGame(r).status = "setup"
                /\ r.sent = ToOpenSockets(starts)

C8_Witness ==
    \E ws \in Sockets :
        /\ IsOpen(ws)
        /\ waitingPlayers # <<>>
        /\ IsOpen(playerData[Head(waitingPlayers)].ws)
        /\ playerData[Head(waitingPlayers)].ws # ws
        /\ Len(handleClientMessage(server, ws, JoinMessage(ws)).sent) = 2

\* ---------------------------------------------------------------------- C9
\* C9: when the socket of a member of an in_progress session closes while the
\* other member is connected, exactly one game_end with reason
\* opponent_disconnected goes to the other member and the session leaves
\* activeGames.
C9_CloseEndsSession ==
    \A ws \in Sockets, g \in DOMAIN activeGames, i \in {0, 1} :
        (/\ readyState[ws] # "CLOSED"
         /\ activeGames[g].status = "in_progress"
         /\ SocketOf(activeGames[g], i) = ws
         /\ SocketOf(activeGames[g], 1 - i) # ws
         /\ IsOpen(SocketOf(activeGames[g], 1 - i))) =>
            LET r == onClose(server, ws)
                other == SocketOf(activeGames[g], 1 - i)
                ends == FramesOfType(FramesTo(r.sent, other), "game_end")
            IN  /\ g \notin DOMAIN r.state.activeGames
                /\ Len(ends) = 1
                /\ ends[1].data.reason = "opponent_disconnected"

\* --------------------------------------------------------------------- C10
\* C10: when the socket of a session's member closes, in setup as well as
\* in_progress, what is sent is one game_end to the remaining member, naming
\* that member as winner with reason opponent_disconnected.
C10_ForfeitNamesRemaining ==
    \A ws \in Sockets :
        (readyState[ws] # "CLOSED" /\ InLiveGame(ws)) =>
            LET r == onClose(server, ws)
                game == GameOf(ws)
                remaining == game.players[1 - IndexOf(ws)]
                end == [to |-> playerData[remaining].ws, type |-> "game_end",
                        data |-> [winner |-> playerData[remaining].name,
                                  reason |-> "opponent_disconnected"]]
            IN  /\ game.status \in {"setup", "in_progress"}
                /\ r.sent = IF IsOpen(end.to) /\ end.to # ws THEN <<end>> ELSE <<>>

C10_Witness ==
    \E ws \in Sockets :
        /\ readyState[ws] # "CLOSED"
        /\ InLiveGame(ws)
        /\ GameOf(ws).status = "setup"
        /\ SocketOf(GameOf(ws), 1 - IndexOf(ws)) # ws
        /\ Len(onClose(server, ws).sent) = 1

\* --------------------------------------------------------------------- C11
\* the Player of ws was put in a session that is no longer in activeGames
InRemovedGame(ws) ==
    /\ players[ws] # NULL
    /\ playerData[players[ws]].gameId # NULL
    /\ playerData[players[ws]].gameId \notin DOMAIN activeGames

ShipKinds == {"carrier", "battleship", "cruiser", "submarine", "destroyer"}

RequiredLength(kind) ==
    CASE kind = "carrier" -> 5
      [] kind = "battleship" -> 4
      [] kind = "cruiser" -> 3
      [] kind = "submarine" -> 3
      [] kind = "destroyer" -> 2

\* every listed cell of a fleet, as <<ship, place in the ship's list>>
CellSlots(ships) == {<<i, k>> \in (1..Len(ships)) \X (1..6) : k <= Len(ships[i].positions)}

OnBoard(cell) == cell[1] \in 0..9 /\ cell[2] \in 0..9

\* the cells are n cells in a row or in a column, next to one another
StraightRun(cells, n) ==
    \E r \in 0..9, c \in 0..9 :
        \/ cells = {<<r, c + k>> : k \in 0..(n - 1)}
        \/ cells = {<<r + k, c>> : k \in 0..(n - 1)}

CountOfKind(ships, kind) == Cardinality({i \in 1..Len(ships) : ships[i].type = kind})

WellFormedFleet(ships) ==
    /\ Len(ships) = 5
    /\ \A kind \in ShipKinds : CountOfKind(ships, kind) = 1
    /\ \A s \in CellSlots(ships) : OnBoard(ships[s[1]].positions[s[2]])
    /\ \A s, t \in CellSlots(ships) :
          s # t => ships[s[1]].positions[s[2]] # ships[t[1]].positions[t[2]]
    /\ \A i \in 1..Len(ships) :
          /\ Len(ships[i].positions) = RequiredLength(ships[i].type)
          /\ StraightRun({ships[i].positions[k] : k \in 1..Len(ships[i].positions)},
                         RequiredLength(ships[i].type))

\* C12: validateShipPlacement accepts a fleet exactly when it has 5 ships, one
\* of each kind, every cell on the 10 x 10 board, no cell listed twice, and
\* each ship a straight contiguous run of its kind's length; a fleet without
\* its destroyer and a fleet whose submarine is a second cruiser are rejected.
C12_AcceptsExactlyWellFormed ==
    /\ verdict = WellFormedFleet(submitted)
    /\ CountOfKind(submitted, "destroyer") = 0 => ~verdict
    /\ (CountOfKind(submitted, "cruiser") = 2 /\ CountOfKind(submitted, "submarine") = 0)
          => ~verdict

\* a fleet without destroyer, or with a second cruiser for its submarine, but
\* otherwise in order, has been submitted
C12_Witness ==
    /\ edits > 0
    /\ ~verdict
    /\ Len(submitted) \in {4, 5}
    /\ \/ CountOfKind(submitted, "destroyer") = 0
       \/ CountOfKind(submitted, "cruiser") = 2 /\ CountOfKind(submitted, "submarine") = 0
    /\ \A s \in CellSlots(submitted) : OnBoard(submitted[s[1]].positions[s[2]])
    /\ \A s, t \in CellSlots(submitted) :
          s # t => submitted[s[1]].positions[s[2]] # submitted[t[1]].positions[t[2]]
    /\ \A i \in 1..Len(submitted) :
          /\ submitted[i].type \in ShipKinds
          /\ StraightRun({submitted[i].positions[k] : k \in 1..Len(submitted[i].positions)},
                         RequiredLength(submitted[i].type))

\* --------------------------------------------------------------------- C13
\* ship i of ships, turned, lies on the board and on no cell of another ship
FitsTurned(ships, i) ==
    LET turned == rotated(ships[i]).positions IN
    /\ \A k \in 1..Len(turned) : OnBoard(turned[k])
    /\ \A s \in CellSlots(ships) :
          s[1] # i => \A k \in 1..Len(turned) : turned[k] # ships[s[1]].positions[s[2]]

\* C13: when an accepted fleet is submitted again with one ship turned by 90
\* degrees, the turned ship on the board and clear of the other ships, it is
\* accepted again; and a fleet submitted again with the cells of one ship
\* listed in another order gets the verdict it got before.
C13_OrientationIndependent ==
    [][\A i \in 1..Len(submitted) :
          /\ (/\ verdict
              /\ Len(submitted[i].positions) > 0
              /\ submitted' = replaceShip(submitted, i, rotated(submitted[i]))
              /\ FitsTurned(submitted, i)) => verdict'
          /\ (submitted' = replaceShip(submitted, i, reversed(submitted[i])))
                => verdict' = verdict
          /\ (/\ Len(submitted[i].positions) > 0
              /\ submitted' = replaceShip(submitted, i, cycled(submitted[i])))
                => verdict' = verdict]_vars

\* FleetSpread with one ship turned upright has been submitted and accepted
C13_Witness ==
    /\ edits = 1
    /\ verdict
    /\ submitted # FleetSpread
    /\ \E i \in 1..Len(FleetSpread) :
          /\ FitsTurned(FleetSpread, i)
          /\ submitted = replaceShip(FleetSpread, i, rotated(FleetSpread[i]))

\* --------------------------------------------------------------------- C14
\* the setup_complete messages whose fleet is not one the rules allow
BadSetupMessages ==
    {m \in SetupMessages :
        \/ "ships" \notin DOMAIN m
        \/ /\ ~WellFormedFleet(m.ships)
           /\ \A i \in 1..Len(m.ships) : m.ships[i].type \notin DOMAIN objectPrototype}

\* C14: a setup_complete from a session's member whose fleet is not valid gets
\* one error frame, sent to that sender; nothing goes to the other member and
\* the server's state (the sender's stored fleet and setupComplete, the
\* session's status and currentTurn) is what it was.
C14_BadFleetChangesNothing ==
    \A ws \in Sockets, m \in BadSetupMessages :
        (IsOpen(ws) /\ InLiveGame(ws)) =>
            LET r == handleClientMessage(server, ws, m) IN
            /\ ErrorTo(r.sent, ws)
            /\ r.state = server

\* a member whose fleet was accepted sends a bent cruiser while the other
\* member is connected
C14_Witness ==
    \E ws \in Sockets :
        /\ IsOpen(ws)
        /\ InLiveGame(ws)
        /\ playerData[players[ws]].setupComplete
        /\ SocketOf(GameOf(ws), 1 - IndexOf(ws)) # ws
        /\ IsOpen(SocketOf(GameOf(ws), 1 - IndexOf(ws)))
        /\ handleClientMessage(server, ws, [type |-> "setup_complete", ships |-> FleetBent]).sent
             = <<[to |-> ws, type |-> "error",
                  data |-> [message |-> "Invalid ship placement"]]>>

\* --------------------------------------------------------------------- C15
\* C15: a fire_result from a session's member that does not answer a relayed
\* fire awaiting its result (it comes from the member whose turn it is, or
\* when no fire is pending, or during setup) leaves currentTurn and status as
\* they were and sends the other member neither shot_result nor turn_change.
C15_UnsolicitedResultIgnored ==
    \A ws \in Sockets, m \in FireResultMessages :
        (IsOpen(ws) /\ InLiveGame(ws) /\ ~AnswersFire(ws)) =>
            LET r == handleClientMessage(server, ws, m)
                game == GameOf(ws)
                other == SocketOf(game, 1 - IndexOf(ws))
            IN  /\ game.id \in DOMAIN r.state.activeGames
                /\ r.state.activeGames[game.id].currentTurn = game.currentTurn
                /\ r.state.activeGames[game.id].status = game.status
                /\ FramesOfType(FramesTo(r.sent, other), "shot_result") = <<>>
                /\ FramesOfType(FramesTo(r.sent, other), "turn_change") = <<>>

\* --------------------------------------------------------------------- C16
\* C16: every shot_result sent while a fire_result is handled goes to the
\* socket of the member whose index is currentTurn when the message arrives,
\* the shooter, not to the socket of the other member, and carries the
\* coordinates, result and shipSunk of the fire_result.
C16_ShotResultToShooter ==
    \A ws \in Sockets, m \in FireResultMessages :
        (IsOpen(ws) /\ InLiveGame(ws)) =>
            LET r == handleClientMessage(server, ws, m)
                game == GameOf(ws)
                results == FramesOfType(r.sent, "shot_result")
            IN  \A k \in 1..Len(results) :
                    /\ results[k].to = SocketOf(game, game.currentTurn)
                    /\ results[k].data = [coordinates |-> m.coordinates,
                                          result |-> m.result,
                                          shipSunk |-> m.shipSunk]

\* --------------------------------------------------------------------- C17
\* ws is the member of an in_progress session whose turn it is
InTurn(ws) ==
    /\ IsOpen(ws)
    /\ InLiveGame(ws)
    /\ GameOf(ws).status = "in_progress"
    /\ IndexOf(ws) = GameOf(ws).currentTurn

\* C17: a fire from the member whose index is currentTurn in an in_progress
\* session sends one frame and no more: opponent_fire with the coordinates of
\* the fire, to the other member; the session's currentTurn and status, and
\* all else the server holds, stay as they were.  Nor does a join, an accepted
\* setup_complete or a message of unknown type change the currentTurn of a
\* session.
C17_FireRelayedOnce ==
    /\ \A ws \in Sockets :
          \A m \in {JoinMessage(ws), [type |-> "setup_complete", ships |-> FleetA]}
                    \cup FireMessages \cup UnknownMessages :
              IsOpen(ws) =>
                  LET r == handleClientMessage(server, ws, m) IN
                  \A g \in DOMAIN activeGames \cap DOMAIN r.state.activeGames :
                      r.state.activeGames[g].currentTurn = activeGames[g].currentTurn
    /\ \A ws \in Sockets, m \in FireMessages :
        InTurn(ws) =>
            LET r == handleClientMessage(server, ws, m)
                game == GameOf(ws)
                relayed == <<[to |-> SocketOf(game, 1 - IndexOf(ws)),
                              type |-> "opponent_fire",
                              data |-> [coordinates |-> m.coordinates]]>>
            IN  /\ r.sent = ToOpenSockets(relayed)
                /\ r.state.activeGames = activeGames
                /\ [r.state EXCEPT !.lastShooter = lastShooter] = server

C17_Witness ==
    \E ws \in Sockets, m \in FireMessages :
        /\ InTurn(ws)
        /\ GameOf(ws).currentTurn = 1
        /\ SocketOf(GameOf(ws), 0) # ws
        /\ IsOpen(SocketOf(GameOf(ws), 0))
        /\ handleClientMessage(server, ws, m).sent
             = <<[to |-> SocketOf(GameOf(ws), 0), type |-> "opponent_fire",
                  data |-> [coordinates |-> m.coordinates]]>>

\* --------------------------------------------------------------------- C18
\* C18: a fire from a member of a session that is in setup, or from a Player
\* whose session is no longer in activeGames, gets one error frame, sent to
\* the sender; no opponent_fire is relayed and the server's state is what it
\* was, also when the sender's index is currentTurn.
C18_FireOutsidePlayRejected ==
    \A ws \in Sockets, m \in FireMessages :
        (/\ IsOpen(ws)
         /\ \/ InRemovedGame(ws)
            \/ InLiveGame(ws) /\ GameOf(ws).status = "setup") =>
            LET r == handleClientMessage(server, ws, m) IN
            /\ ErrorTo(r.sent, ws)
            /\ r.state = server

\* the member at currentTurn fires during setup, the other member connected
C18_Witness ==
    \E ws \in Sockets, m \in FireMessages :
        /\ IsOpen(ws)
        /\ InLiveGame(ws)
        /\ GameOf(ws).status = "setup"
        /\ IndexOf(ws) = GameOf(ws).currentTurn
        /\ SocketOf(GameOf(ws), 1 - IndexOf(ws)) # ws
        /\ IsOpen(SocketOf(GameOf(ws), 1 - IndexOf(ws)))
        /\ handleClientMessage(server, ws, m).sent
             = <<[to |-> ws, type |-> "error",
                  data |-> [message |-> "Game not in progress"]]>>

\* --------------------------------------------------------------------- C19
\* messages that make a handler throw: a setup_complete without ships, at
\* the for...of of validateShipPlacement; a join_game and a fire whose
\* playerName and coordinates have no string form, at the console.log that
\* ends handleJoinGame, createGame and handleFire
ThrowingMessages ==
    {m \in SetupMessages : "ships" \notin DOMAIN m}
        \cup {[type |-> "join_game", playerName |-> noToString],
              [type |-> "fire", coordinates |-> noToString]}

\* C19: a message of a type other than join_game, setup_complete, fire and
\* fire_result, data that cannot be decoded, and a message on which the
\* handler throws (a setup_complete without ships, a join_game whose
\* playerName and a fire whose coordinates have no string form) each get one
\* error frame, sent to the sender; nothing goes to another connection and the
\* wait queue, the players map and every session are what they were.
C19_ProtocolErrorChangesNothing ==
    \A ws \in Sockets :
        IsOpen(ws) =>
            /\ \A m \in UnknownMessages \cup ThrowingMessages :
                  LET r == handleClientMessage(server, ws, m) IN
                  /\ ErrorTo(r.sent, ws)
                  /\ r.state = server
            /\ LET r == handleUndecodable(server, ws) IN
               /\ ErrorTo(r.sent, ws)
               /\ r.state = server

\* --------------------------------------------------------------------- C20
\* C20: a setup_complete, fire or fire_result from a connection without a
\* Player, or whose Player is in no session of activeGames (it is queued, or
\* its session was removed), gets one error frame, sent to the sender; nothing
\* else is sent and the queue, the players map and every session are what
\* they were.
C20_OutsiderRejected ==
    \A ws \in Sockets :
        \A m \in SetupMessages \cup FireMessages \cup FireResultMessages :
            (IsOpen(ws) /\ ~InLiveGame(ws)) =>
                LET r == handleClientMessage(server, ws, m) IN
                /\ ErrorTo(r.sent, ws)
                /\ r.state = server

\* a queued Player reports a shot while a session of other Players is live
C20_Witness ==
    \E ws \in Sockets, m \in FireResultMessages :
        /\ IsOpen(ws)
        /\ players[ws] # NULL
        /\ \E k \in 1..Len(waitingPlayers) : waitingPlayers[k] = players[ws]
        /\ activeGames # <<>>
        /\ handleClientMessage(server, ws, m).sent
             = <<[to |-> ws, type |-> "error",
                  data |-> [message |-> "Player not in a game"]]>>

\* --------------------------------------------------------------------- C21
Players == 1..Len(playerData)

InRegistry(p) == \E ws \in Sockets : players[ws] = p

InQueue(p) == \E k \in 1..Len(waitingPlayers) : waitingPlayers[k] = p

\* the live sessions that have p as a member
SessionsOf(p) ==
    {g \in DOMAIN activeGames : activeGames[g].players[0] = p \/ activeGames[g].players[1] = p}

\* the Player record is still held by the server
Held(p) == InRegistry(p) \/ InQueue(p) \/ SessionsOf(p) # {}

\* C21: no two Player records the server holds (in the players map, the wait
\* queue or a live session) belong to the same connection.
C21_OnePlayerPerConnection ==
    \A p, q \in Players :
        (p # q /\ Held(p) /\ Held(q)) => playerData[p].ws # playerData[q].ws

\* --------------------------------------------------------------------- C22
\* C22: no Player record is in the wait queue and a member of a live session
\* at once, none is in the wait queue at two places, and none is a member of
\* two live sessions or both members of one.
C22_QueueOrSession ==
    \A p \in Players :
        /\ ~(InQueue(p) /\ SessionsOf(p) # {})
        /\ Cardinality({k \in 1..Len(waitingPlayers) : waitingPlayers[k] = p}) <= 1
        /\ Cardinality(SessionsOf(p)) <= 1
        /\ \A g \in SessionsOf(p) : activeGames[g].players[0] # activeGames[g].players[1]

\* a Player waits while a session formed before it is live
C22_Witness ==
    /\ Len(waitingPlayers) = 1
    /\ activeGames # <<>>
    /\ \A g \in DOMAIN activeGames : waitingPlayers[1] > activeGames[g].players[0]

\* --------------------------------------------------------------------- C23
\* C23: for every Player in the players map, gameId is not null exactly when
\* the Player is a member of one session of activeGames.
C23_GameIdMeansLiveSession ==
    \A p \in Players :
        InRegistry(p) =>
            (playerData[p].gameId # NULL <=> Cardinality(SessionsOf(p)) = 1)

\* --------------------------------------------------------------------- C24
\* C24: when handleDisconnection has run for a connection, no session left in
\* activeGames has a member whose socket is that connection.
C24_CloseDestroysSessions ==
    \A ws \in Sockets :
        readyState[ws] # "CLOSED" =>
            LET r == onClose(server, ws) IN
            \A g \in DOMAIN r.state.activeGames, i \in {0, 1} :
                r.state.playerData[r.state.activeGames[g].players[i]].ws # ws

\* --------------------------------------------------------------------- C25
\* C25: no Player in the wait queue belongs to a connection that has closed,
\* so the waiter a join is paired with is never one whose connection closed;
\* when a connection closes, its queued Player leaves the queue and nothing is
\* sent and no session changes, and when its Player is not queued (matched
\* already, or gone) the queue stays as it is.
C25_ClosedLeavesQueue ==
    /\ \A k \in 1..Len(waitingPlayers) :
          readyState[playerData[waitingPlayers[k]].ws] # "CLOSED"
    /\ \A ws \in Sockets :
          readyState[ws] # "CLOSED" =>
              LET r == onClose(server, ws)
                  queued == players[ws] # NULL /\ InQueue(players[ws])
              IN  /\ \A k \in 1..Len(r.state.waitingPlayers) :
                        playerData[r.state.waitingPlayers[k]].ws # ws
                  /\ queued =>
                        /\ r.sent = <<>>
                        /\ r.state.activeGames = activeGames
                        /\ Len(r.state.waitingPlayers) = Len(waitingPlayers) - 1
                  /\ ~queued => r.state.waitingPlayers = waitingPlayers

\* a waiter's connection closed before anyone came, and the next arrival
\* waits in its turn
C25_Witness ==
    \E p, q \in Players :
        /\ p < q
        /\ readyState[playerData[p].ws] = "CLOSED"
        /\ playerData[p].gameId = NULL
        /\ waitingPlayers = <<q>>

\* --------------------------------------------------------------------- C26
\* the sessions that were created and are no longer in activeGames
EndedGames == DOMAIN gameEnds \ DOMAIN activeGames

\* C26: an ended session stays ended.  A setup_complete, fire or fire_result
\* from a Player whose session has ended sends nothing but an error frame to
\* that sender (no opponent_fire, shot_result, turn_change or game_end to
\* anyone) and leaves the server's state as it was; and no join brings an
\* ended session back into activeGames.
C26_EndedIsTerminal ==
    /\ \A ws \in Sockets :
          \A m \in SetupMessages \cup FireMessages \cup FireResultMessages :
              (IsOpen(ws) /\ InRemovedGame(ws)) =>
                  LET r == handleClientMessage(server, ws, m) IN
                  /\ \A k \in 1..Len(r.sent) :
                        r.sent[k].type = "error" /\ r.sent[k].to = ws
                  /\ Len(r.sent) <= 1
                  /\ r.state = server
    /\ \A ws \in Sockets :
          IsOpen(ws) =>
              EndedGames \cap
                  DOMAIN handleClientMessage(server, ws, JoinMessage(ws)).state.activeGames = {}

\* the member that was sent game_end when its opponent left reports a shot
C26_Witness ==
    \E ws \in Sockets, m \in FireResultMessages :
        /\ IsOpen(ws)
        /\ InRemovedGame(ws)
        /\ \E i \in {0, 1} : gameEnds[playerData[players[ws]].gameId][i] = 1
        /\ handleClientMessage(server, ws, m).sent
             = <<[to |-> ws, type |-> "error", data |-> [message |-> "Game not found"]]>>

\* --------------------------------------------------------------------- C27
\* C27: once a member's fleet has been accepted, a further setup_complete from
\* that member, whatever fleet it carries, leaves the stored fleet, the
\* session's status and currentTurn as they are and sends no turn_change.
C27_PlacementOnlyOnce ==
    \A ws \in Sockets :
        \A m \in SetupMessages \cup {[type |-> "setup_complete", ships |-> FleetSpread]} :
            (IsOpen(ws) /\ InLiveGame(ws) /\ playerData[players[ws]].setupComplete) =>
                LET r == handleClientMessage(server, ws, m) IN
                /\ r.state.playerData[players[ws]].ships = playerData[players[ws]].ships
                /\ r.state.activeGames = activeGames
                /\ FramesOfType(r.sent, "turn_change") = <<>>

\* --------------------------------------------------------------------- C28
\* C28: a join that creates a session sends two frames and no more: to the
\* member at index 0 a game_start with turnOrder "first" and to the member at
\* index 1 one with turnOrder "second", each with the id of the new session
\* and the name of the other member; the session has an id no session had
\* before, status setup and currentTurn 0, and both members' gameId is that
\* id.
C28_GameStartToBoth ==
    \A ws \in Sockets :
        (IsOpen(ws) /\ waitingPlayers # <<>>) =>
            LET r == handleClientMessage(server, ws, JoinMessage(ws))
                created == DOMAIN r.state.activeGames \ DOMAIN activeGames
                game == r.state.activeGames[CHOOSE g \in created : TRUE]
                member == [i \in {0, 1} |-> r.state.playerData[game.players[i]]]
                starts == <<[to |-> member[0].ws, type |-> "game_start",
                             data |-> [gameId |-> game.id,
                                       opponentName |-> member[1].name,
                                       turnOrder |-> "first"]],
                            [to |-> member[1].ws, type |-> "game_start",
                             data |-> [gameId |-> game.id,
                                       opponentName |-> member[0].name,
                                       turnOrder |-> "second"]]>>
            IN  /\ Cardinality(created) = 1
                /\ created \cap DOMAIN gameEnds = {}
                /\ game.id \in created
                /\ game.players[0] # game.players[1]
                /\ game.status = "setup"
                /\ game.currentTurn = 0
                /\ member[0].gameId = game.id
                /\ member[1].gameId = game.id
                /\ r.sent = ToOpenSockets(starts)

\* a second session is about to be formed by two connected clients
C28_Witness ==
    \E ws \in Sockets :
        /\ IsOpen(ws)
        /\ gamesCreated > 0
        /\ waitingPlayers # <<>>
        /\ IsOpen(playerData[Head(waitingPlayers)].ws)
        /\ playerData[Head(waitingPlayers)].ws # ws
        /\ Len(FramesOfType(handleClientMessage(server, ws, JoinMessage(ws)).sent,
                            "game_start")) = 2

\* --------------------------------------------------------------------- C29
\* C29: the two members of every live session belong to two different
\* connections.
C29_NoSelfPairing ==
    \A g \in DOMAIN activeGames :
        SocketOf(activeGames[g], 0) # SocketOf(activeGames[g], 1)

\* a fire the server is about to relay never comes from the member whose
\* previous relayed fire is still without a fire_result
NoSecondFire ==
    \A ws \in Sockets :
        (/\ toServer[ws] # <<>>
         /\ readyState[ws] # "CLOSED"
         /\ Head(toServer[ws]).type = "fire"
         /\ InLiveGame(ws)) =>
            LET r == handleClientMessage(server, ws, Head(toServer[ws]))
                shot == lastShooter[playerData[players[ws]].gameId]
            IN  FramesOfType(r.sent, "opponent_fire") # <<>> =>
                    ~(shot.pending /\ shot.index = IndexOf(ws))

\* the two clients do not hold isMyTurn = TRUE together
OneTurnHolder == ~(\A c \in Clients : agent[c].isMyTurn)

\* C30: with the two clients on their channels, a fire the server relays never
\* comes from the member whose previous relayed fire is still without a
\* fire_result, and the two clients never hold isMyTurn = TRUE together.
C30_ClientsKeepTurns == NoSecondFire /\ OneTurnHolder

\* the most fires the two clients can send
MaxFires == MaxClicks

\* The handler that relayed the n-th fire_result has sent a turn_change to
\* both clients and each client has received as many turn_change frames as
\* had been sent to it by then, or both clients have received a game_end.
FireSettled(n) ==
    /\ tally.answered >= n
    /\ \/ \A c \in Clients : /\ tally.due[n].toEach[c] >= 1
                             /\ tally.turnChanges[c] >= tally.due[n].upTo[c]
       \/ \A c \in Clients : tally.gameEnds[c] >= 1

\* C31: with the two clients connected and messages delivered fairly, the n-th
\* fire the server relays is eventually followed by the n-th fire_result
\* relayed and by the turn_change after it (or a game_end) received by both
\* clients.
C31_FireIsAnswered ==
    \A n \in 1..MaxFires : (tally.relayed >= n) ~> FireSettled(n)

\* no connection has gone down, on the server's side or on the page's
StayedConnected == \A ws \in Sockets : ~Down(ws)

\* C32: while every connection stays up, a fire a client has sent is not
\* rejected: when the server processes it, the sender's session is in_progress
\* with currentTurn at the sender's index, and the handler sends the sender no
\* error.
C32_ClientFireNeverRejected ==
    \A ws \in Sockets :
        (StayedConnected /\ toServer[ws] # <<>> /\ Head(toServer[ws]).type = "fire") =>
            /\ InLiveGame(ws)
            /\ GameOf(ws).status = "in_progress"
            /\ GameOf(ws).currentTurn = IndexOf(ws)
            /\ ~ErrorTo(handleClientMessage(server, ws, Head(toServer[ws])).sent, ws)

\* C33: every fleet that reaches the server's validateShipPlacement from the
\* page's setup button, five ships placed by placeShip where canPlaceShip
\* allowed it, holds one ship of every kind of the dock and is accepted. "One
\* per kind" is read as part of what is said of every fleet the page can
\* submit, not as a condition on the fleets the statement is about.
C33_ClientFleetAccepted ==
    submitted # NoShips =>
        /\ Len(submitted) = Len(shipTypes)
        /\ \A k \in 1..Len(shipTypes) : CountOfKind(submitted, shipTypes[k].type) = 1
        /\ verdict

\* what a sequence holds
Range(seq) == {seq[k] : k \in 1..Len(seq)}

\* C34: the wait queue never holds more than one Player: a join on an empty
\* queue leaves exactly the new Player waiting, a join on a waiter leaves the
\* queue empty, and the teardown of a connection only removes from the queue.
C34_AtMostOneWaiting ==
    /\ Len(waitingPlayers) <= 1
    /\ \A ws \in Sockets :
           LET r == handleClientMessage(server, ws, JoinMessage(ws)) IN
           r.state.waitingPlayers = IF waitingPlayers = <<>>
                                    THEN <<r.state.players[ws]>>
                                    ELSE <<>>
    /\ \A ws \in Sockets :
           LET r == onClose(server, ws) IN
           /\ Len(r.state.waitingPlayers) <= Len(waitingPlayers)
           /\ Range(r.state.waitingPlayers) \subseteq Range(waitingPlayers)

\* a Player waits after an earlier waiter was dequeued into a game
C34_Witness ==
    /\ Len(waitingPlayers) = 1
    /\ gamesCreated >= 1

====
